---- MODULE Spec2Model ----
(***************************************************************************)
(* Token lifecycle manager of a-aslani/wotop, package jwt (src/jwt/jwt.go)  *)
(* over the Redis reference repository (src/jwt/redis_repository.go), and   *)
(* the gin middleware in front of it (src/unnamed/part_006).                *)
(*                                                                         *)
(* A token string is a record: its shape (a three-segment JWT or one of    *)
(* the malformed shapes), an optional "Bearer " prefix, the header         *)
(* algorithm, the key that produced the signature, and the claims.         *)
(* Random strings (CSRF secrets, JTIs) are 32 random bytes; the generator  *)
(* is modelled as never repeating a value (rnd is the next unused value),  *)
(* 0 stands for the empty string.  Time is the Unix clock in whole units.  *)
(* golang-jwt (import path github.com/golang-jwt/jwt, v3) validates the    *)
(* claims before the signature and ORs both results into one               *)
(* ValidationError.                                                        *)
(***************************************************************************)
EXTENDS Integers, Sequences, FiniteSets, TLC

VARIABLES cfg,            \* the instance: algorithm and the two lifetimes
          now,            \* time.Now().Unix()
          store,          \* the repository: refresh records, blocked records
          refreshTokens,  \* package variable: JTI -> subject
          blockedTokens,  \* package variable: blocked access-token strings
          rnd,            \* next value of the random generator
          issued,         \* token strings handed to callers so far
          last,           \* the call in progress of returning: inputs, results
          revoked,        \* access strings of DeleteToken calls that returned nil
          rotated,        \* refresh strings of RenewToken calls that returned nil
          generated,      \* GenerateToken calls that returned nil: inputs, results
          inst,           \* the instance: "none", "ready" or "crashed"
          procs,          \* concurrent callers: position, inputs, locals, results
          durable         \* records the repository has accepted so far

vars == <<cfg, now, store, refreshTokens, blockedTokens, rnd, issued,
          last, revoked, rotated, generated, inst, procs, durable>>

\* what one caller at a time never touches
concVars == <<inst, procs, durable>>

\* what concurrent callers never touch
seqVars == <<last, revoked, rotated, generated>>

\* ---------------------------------------------------------------- bounds
MaxTime == 4
MaxRand == 4
MaxStoreCalls == 3
MaxConcTime == 3

\* ------------------------------------------------------------ vocabulary
HMACAlgs == {"HS256", "HS512"}
Algs == HMACAlgs \cup {"RS256"}
AccessLifetimes == {1}
RefreshLifetimes == {2}
Profiles == { [uid |-> "id1", role |-> "user", sub |-> "u1", tenant |-> "t1"] }

Blank == [shape |-> "empty", pre |-> FALSE, alg |-> "", key |-> "",
          uid |-> "", csrf |-> 0, role |-> "", tenant |-> "", sub |-> "",
          exp |-> 0, jti |-> 0]

\* Claims and RefreshTokenClaims with no field set
ZeroClaims == [uid |-> "", csrf |-> 0, role |-> "", tenant |-> "", sub |-> "",
               exp |-> 0, jti |-> 0]

\* a string that is not a JWT at all (a subject, a JTI, "garbage")
RawString == [Blank EXCEPT !.shape = "segments"]
\* three segments whose header does not decode
BadHeader == [Blank EXCEPT !.shape = "header"]

\* ------------------------------------------------------------- map helpers
MapGet(f, k) == IF k \in DOMAIN f THEN f[k] ELSE ""
MapPut(f, k, v) == [x \in DOMAIN f \cup {k} |-> IF x = k THEN v ELSE f[x]]
MapDel(f, k) == [x \in DOMAIN f \ {k} |-> f[x]]
EmptyMap == [x \in {} |-> ""]

\* -------------------------------------------------------------- sequencing
\* v := x; F(v): the statement's result is computed once and then named
Bind(x, F(_)) == CHOOSE y \in {F(v) : v \in {x}} : TRUE

\* ----------------------------------------------------------- token codec
\* strings.Split(s, " ")[1] when the string has a second space-separated part
Strip(s) == [s EXCEPT !.pre = FALSE]

\* the key parseToken hands to the library, by configured algorithm
parseTokenKey(alg) == IF alg = "RS256" THEN "verifyKey" ELSE "secretKey"

\* parseToken's signing-method check: the token's method must be HMAC
parseTokenMethodOk(tokAlg) == tokAlg \in HMACAlgs

\* SigningMethod.Verify of the token's own header algorithm with the given key
MethodVerify(tok, key) ==
    IF tok.alg \in HMACAlgs
    THEN key = "secretKey" /\ tok.key = "secret"
    ELSE key = "verifyKey" /\ tok.key = "priv"

\* verifyExp of StandardClaims.Valid: a zero expiry is not checked
ClaimsExpired(exp, t) == exp # 0 /\ t > exp

ClaimsOf(tok) == [uid |-> tok.uid, csrf |-> tok.csrf, role |-> tok.role,
                  tenant |-> tok.tenant, sub |-> tok.sub, exp |-> tok.exp,
                  jti |-> tok.jti]

\* jwt.ParseWithClaims(tokenString, claims, parseToken)
ParseWithClaims(s) ==
    IF s.shape \in {"empty", "segments"}
    THEN [tokNil |-> TRUE, hasClaims |-> FALSE, claims |-> ZeroClaims,
          valid |-> FALSE, errs |-> {"Malformed"}]
    ELSE IF s.shape = "header" \/ s.pre
    THEN [tokNil |-> FALSE, hasClaims |-> FALSE, claims |-> ZeroClaims,
          valid |-> FALSE, errs |-> {"Malformed"}]
    ELSE IF ~parseTokenMethodOk(s.alg)
    THEN [tokNil |-> FALSE, hasClaims |-> TRUE, claims |-> ClaimsOf(s),
          valid |-> FALSE, errs |-> {"Unverifiable"}]
    ELSE LET e1 == IF ClaimsExpired(s.exp, now) THEN {"Expired"} ELSE {}
             e2 == IF MethodVerify(s, parseTokenKey(cfg.alg)) THEN {}
                   ELSE {"SignatureInvalid"}
         IN [tokNil |-> FALSE, hasClaims |-> TRUE, claims |-> ClaimsOf(s),
             valid |-> (e1 \cup e2 = {}), errs |-> e1 \cup e2]

\* token.sign: NewWithClaims(t.algorithm, claims).SignedString(key)
sign(claims) ==
    [shape |-> "jwt", pre |-> FALSE, alg |-> cfg.alg,
     key |-> IF cfg.alg = "RS256" THEN "priv" ELSE "secret",
     uid |-> claims.uid, csrf |-> claims.csrf, role |-> claims.role,
     tenant |-> claims.tenant, sub |-> claims.sub, exp |-> claims.exp,
     jti |-> claims.jti]


\* ------------------------------------------------- repository (Redis adapter)
\* A call context m carries the store, the cache, the random generator and
\* the number of repository calls made so far; repository call number
\* m.failAt fails (0: none fails).
Fails(m) == m.calls + 1 = m.failAt
Called(m) == [m EXCEPT !.calls = @ + 1]

\* SET refresh_token:<jti> sub
StoreRefreshToken(m, sub, jti) ==
    IF Fails(m) THEN [m |-> Called(m), err |-> "StoreError"]
    ELSE [m |-> [Called(m) EXCEPT !.sr = MapPut(@, jti, sub), !.writes = @ + 1],
          err |-> "nil"]

\* DEL refresh_token:<jti>
DeleteRefreshToken(m, jti) ==
    IF Fails(m) THEN [m |-> Called(m), err |-> "StoreError"]
    ELSE [m |-> [Called(m) EXCEPT !.sr = MapDel(@, jti), !.writes = @ + 1],
          err |-> "nil"]

\* GET refresh_token:<jti>; redis.Nil becomes ErrTokenAlreadyRefreshed
FindRefreshToken(m, jti) ==
    IF Fails(m) THEN [m |-> Called(m), sub |-> "", err |-> "StoreError"]
    ELSE IF jti \notin DOMAIN m.sr
    THEN [m |-> Called(m), sub |-> "", err |-> "TokenAlreadyRefreshed"]
    ELSE [m |-> Called(m), sub |-> m.sr[jti], err |-> "nil"]

\* SET blocked_token:<sub>:<expiresAt> token
StoreBlockedToken(m, sub, tok, expiresAt) ==
    IF Fails(m) THEN [m |-> Called(m), err |-> "StoreError"]
    ELSE [m |-> [Called(m) EXCEPT !.sb = MapPut(@, <<sub, expiresAt>>, tok),
                                  !.writes = @ + 1],
          err |-> "nil"]

\* ------------------------------------------------------------ token service
\* generateRandomString(32)
generateRandomString(m) == [m |-> [m EXCEPT !.rnd = @ + 1], s |-> m.rnd]

contains(s, e) == \E i \in 1..Len(s) : s[i] = e

checkRefreshToken_Always(m, jti) == TRUE

checkRefreshToken(m, jti) == MapGet(m.cr, jti) # ""

\* t.contains(blockedTokens, authToken): the package slice, no repository call
blockedLookupInCache_ViaStore(m, authToken) ==
    [m |-> Called(m), found |-> \E k \in DOMAIN m.sb : m.sb[k] = authToken]

blockedLookupInCache(m, authToken) == [m |-> m, found |-> contains(m.cb, authToken)]

VerifyToken(m, authToken0) ==
    Bind(Strip(authToken0), LAMBDA authToken :
    Bind(ParseWithClaims(authToken), LAMBDA p :
      IF p.errs # {}
      THEN IF "Expired" \in p.errs
           THEN [m |-> m, raw |-> authToken, ok |-> FALSE, claims |-> ZeroClaims,
                 err |-> "ExpiredToken"]
           ELSE [m |-> m, raw |-> authToken, ok |-> FALSE, claims |-> ZeroClaims,
                 err |-> "Unauthorized"]
      ELSE IF p.valid
      THEN Bind(blockedLookupInCache(m, authToken), LAMBDA b :
             IF b.found
             THEN [m |-> b.m, raw |-> authToken, ok |-> FALSE, claims |-> ZeroClaims,
                   err |-> "Unauthorized"]
             ELSE [m |-> b.m, raw |-> authToken, ok |-> TRUE, claims |-> p.claims,
                   err |-> "nil"])
      ELSE [m |-> m, raw |-> authToken, ok |-> FALSE, claims |-> ZeroClaims,
            err |-> "Unauthorized"]))

verifyRefreshToken(refreshToken) ==
    Bind(ParseWithClaims(refreshToken), LAMBDA p :
      IF p.errs # {}
      THEN IF "Expired" \in p.errs
           THEN [claims |-> ZeroClaims, err |-> "ExpiredToken"]
           ELSE [claims |-> ZeroClaims, err |-> "Unauthorized"]
      ELSE IF p.valid THEN [claims |-> p.claims, err |-> "nil"]
      ELSE [claims |-> ZeroClaims, err |-> "Unauthorized"])

\* the first generated value that is not a key of the cached refresh map
RECURSIVE retryJti(_, _)
retryJti(m, jti) ==
    IF MapGet(m.cr, jti) # ""
    THEN Bind(generateRandomString(m), LAMBDA g : retryJti(g.m, g.s))
    ELSE [m |-> m, s |-> jti]

storeRefreshToken(m, sub) ==
    Bind(generateRandomString(m), LAMBDA g0 :
    Bind(retryJti(g0.m, g0.s), LAMBDA g :
    Bind(StoreRefreshToken(g.m, sub, g.s), LAMBDA w :
      IF w.err # "nil" THEN [m |-> w.m, jti |-> g.s, err |-> w.err]
      ELSE [m |-> [w.m EXCEPT !.cr = MapPut(@, g.s, sub)], jti |-> g.s,
            err |-> "nil"])))

subjectMismatch_Never(stored, claimed) == FALSE

\* token.Subject != claims.Subject, the stored subject against the token's
subjectMismatch(stored, claimed) == stored # claimed

deleteRefreshToken_CacheOnly(m, refreshToken) ==
    [m |-> [m EXCEPT !.cr = MapDel(@, refreshToken.jti)], err |-> "nil"]

deleteRefreshToken(m, refreshToken) ==
    Bind(verifyRefreshToken(refreshToken), LAMBDA v :
      IF v.err # "nil" THEN [m |-> m, err |-> v.err]
      ELSE Bind(FindRefreshToken(m, v.claims.jti), LAMBDA f :
        IF f.err # "nil" THEN [m |-> f.m, err |-> f.err]
        ELSE IF subjectMismatch(f.sub, v.claims.sub)
        THEN [m |-> f.m, err |-> "RefreshTokenNotFoundInDatabase"]
        ELSE Bind(DeleteRefreshToken(f.m, v.claims.jti), LAMBDA d :
          IF d.err # "nil" THEN [m |-> d.m, err |-> d.err]
          ELSE [m |-> [d.m EXCEPT !.cr = MapDel(@, v.claims.jti)],
                err |-> "nil"])))

\* the blocking condition of DeleteToken on the verified access claims
stillValid(claims) == claims.exp # 0 /\ claims.exp > now

DeleteToken(m, accessToken, refreshToken) ==
    Bind(verifyRefreshToken(refreshToken), LAMBDA v :
      IF v.err # "nil" THEN [m |-> m, err |-> v.err]
      ELSE Bind(FindRefreshToken(m, v.claims.jti), LAMBDA f :
        IF f.err # "nil" THEN [m |-> f.m, err |-> f.err]
        ELSE IF subjectMismatch(f.sub, v.claims.sub)
        THEN [m |-> f.m, err |-> "RefreshTokenNotFoundInDatabase"]
        ELSE Bind(DeleteRefreshToken(f.m, v.claims.jti), LAMBDA d :
          IF d.err # "nil" THEN [m |-> d.m, err |-> d.err]
          ELSE Bind([d.m EXCEPT !.cr = MapDel(@, v.claims.jti)], LAMBDA m2 :
               Bind(VerifyToken(m2, accessToken), LAMBDA a :
            IF a.err # "nil" THEN [m |-> a.m, err |-> a.err]
            ELSE IF a.ok /\ stillValid(a.claims)
            THEN Bind(StoreBlockedToken(a.m, f.sub, accessToken, a.claims.exp),
                      LAMBDA b :
                   IF b.err # "nil" THEN [m |-> b.m, err |-> b.err]
                   ELSE [m |-> [b.m EXCEPT !.cb = Append(@, accessToken)],
                         err |-> "nil"])
            ELSE [m |-> a.m, err |-> "nil"])))))

createAccessToken(userID, role, sub, tenant, csrfSecret) ==
    LET authTokenExp == now + cfg.accessTokenValidTime
    IN [token |-> sign([uid |-> userID, csrf |-> csrfSecret, role |-> role,
                        tenant |-> tenant, sub |-> sub, exp |-> authTokenExp,
                        jti |-> 0]),
        exp |-> authTokenExp]

createRefreshToken(m, sub, csrfString) ==
    LET refreshTokenExp == now + cfg.refreshTokenValidTime
    IN Bind(storeRefreshToken(m, sub), LAMBDA w :
         IF w.err # "nil" THEN [m |-> w.m, token |-> Blank, err |-> w.err]
         ELSE [m |-> w.m,
               token |-> sign([ZeroClaims EXCEPT !.csrf = csrfString, !.jti = w.jti,
                                                 !.sub = sub, !.exp = refreshTokenExp]),
               err |-> "nil"])

\* the error of createRefreshToken is overwritten by createAccessToken's
GenerateToken(m, userID, role, sub, tenant) ==
    Bind(generateRandomString(m), LAMBDA g :
    Bind(createRefreshToken(g.m, sub, g.s), LAMBDA r :
    Bind(createAccessToken(userID, role, sub, tenant, g.s), LAMBDA a :
      [m |-> r.m, access |-> a.token, refresh |-> r.token, csrf |-> g.s,
       expiresAt |-> a.exp, userId |-> "", err |-> "nil"])))


csrfMismatch_Never(oldCsrfSecret, claims) == FALSE

\* oldCsrfSecret != authTokenClaims.Csrf
csrfMismatch(oldCsrfSecret, claims) == oldCsrfSecret # claims.csrf

updateRefreshTokenCsrf(oldRefreshTokenString, newCsrfString) ==
    Bind(ParseWithClaims(oldRefreshTokenString), LAMBDA p :
      IF p.errs # {} THEN [token |-> Blank, err |-> "ParserError"]
      ELSE [token |-> sign([ZeroClaims EXCEPT !.csrf = newCsrfString,
                                              !.jti = p.claims.jti,
                                              !.sub = p.claims.sub,
                                              !.exp = p.claims.exp]),
            err |-> "nil"])

updateRefreshTokenExp(m, oldRefreshTokenString) ==
    Bind(ParseWithClaims(oldRefreshTokenString), LAMBDA p :
      IF p.errs # {} THEN [m |-> m, token |-> Blank, err |-> "ParserError"]
      ELSE Bind(deleteRefreshToken(m, oldRefreshTokenString), LAMBDA d :
        IF d.err # "nil" THEN [m |-> d.m, token |-> Blank, err |-> d.err]
        ELSE LET refreshTokenExp == now + cfg.refreshTokenValidTime
             IN Bind(storeRefreshToken(d.m, p.claims.sub), LAMBDA w :
                  IF w.err # "nil" THEN [m |-> w.m, token |-> Blank, err |-> w.err]
                  ELSE [m |-> w.m,
                        token |-> sign([ZeroClaims EXCEPT !.csrf = p.claims.csrf,
                                                          !.jti = w.jti,
                                                          !.sub = p.claims.sub,
                                                          !.exp = refreshTokenExp]),
                        err |-> "nil"])))

updateAccessToken(m, refreshTokenString, oldAccessToken) ==
    LET none == [m |-> m, access |-> Blank, csrf |-> 0, expiresAt |-> 0,
                 userId |-> "", err |-> "nil"]
    IN Bind(ParseWithClaims(refreshTokenString), LAMBDA p :
         IF p.errs # {} THEN [none EXCEPT !.err = "ParserError"]
         ELSE IF checkRefreshToken(m, p.claims.jti)
         THEN IF p.valid
              THEN Bind(ParseWithClaims(oldAccessToken).claims, LAMBDA old :
                   Bind(generateRandomString(m), LAMBDA g :
                   Bind(createAccessToken(old.uid, old.role, old.sub, old.tenant, g.s),
                        LAMBDA a :
                     [m |-> g.m, access |-> a.token, csrf |-> g.s,
                      expiresAt |-> a.exp, userId |-> old.uid, err |-> "nil"])))
              ELSE Bind(DeleteToken(m, RawString, RawString), LAMBDA d :
                     [none EXCEPT !.m = d.m,
                                  !.err = IF d.err # "nil" THEN d.err
                                          ELSE "Unauthorized"])
         ELSE [none EXCEPT !.err = "Unauthorized"])

RenewToken(m, oldAccessTokenString0, oldRefreshTokenString, oldCsrfSecret) ==
    LET oldAccessTokenString == Strip(oldAccessTokenString0)
        none == [m |-> m, access |-> Blank, refresh |-> Blank, csrf |-> 0,
                 expiresAt |-> 0, userId |-> "", err |-> "nil"]
    IN IF oldCsrfSecret = 0 THEN [none EXCEPT !.err = "Unauthorized"]
       ELSE Bind(ParseWithClaims(oldAccessTokenString), LAMBDA p :
         IF p.tokNil THEN [none EXCEPT !.err = "panic"]
         ELSE IF ~p.hasClaims THEN [none EXCEPT !.err = "ParserError"]
         ELSE IF csrfMismatch(oldCsrfSecret, p.claims)
         THEN [none EXCEPT !.err = "Unauthorized"]
         ELSE IF p.valid
         THEN Bind(updateRefreshTokenExp(m, oldRefreshTokenString), LAMBDA r :
                [none EXCEPT !.m = r.m, !.csrf = p.claims.csrf,
                             !.refresh = r.token,
                             !.access = oldAccessTokenString,
                             !.err = r.err])
         ELSE IF "Expired" \in p.errs
         THEN Bind(updateAccessToken(m, oldRefreshTokenString, oldAccessTokenString),
                   LAMBDA a :
              Bind([none EXCEPT !.m = a.m, !.access = a.access,
                                !.csrf = a.csrf, !.expiresAt = a.expiresAt,
                                !.userId = a.userId, !.err = a.err], LAMBDA got :
                IF a.err # "nil" THEN got
                ELSE Bind(updateRefreshTokenExp(a.m, oldRefreshTokenString), LAMBDA r :
                  IF r.err # "nil"
                  THEN [got EXCEPT !.m = r.m, !.refresh = r.token, !.err = r.err]
                  ELSE Bind(updateRefreshTokenCsrf(r.token, a.csrf), LAMBDA c :
                         [got EXCEPT !.m = r.m, !.refresh = c.token,
                                     !.err = c.err]))))
         ELSE [none EXCEPT !.err = "Unauthorized"])


\* ------------------------------------------------------------ state machine
Ctx(failAt) == [sr |-> store.refresh, sb |-> store.blocked,
                cr |-> refreshTokens, cb |-> blockedTokens, rnd |-> rnd,
                calls |-> 0, writes |-> 0, failAt |-> failAt]

Snapshot == [store |-> store, refreshTokens |-> refreshTokens,
             blockedTokens |-> blockedTokens, rotated |-> rotated, rnd |-> rnd]

NoProfile == [uid |-> "", role |-> "", sub |-> "", tenant |-> ""]

NoOut == [access |-> Blank, refresh |-> Blank, csrf |-> 0, expiresAt |-> 0,
          userId |-> "", err |-> "nil", ok |-> FALSE, claims |-> ZeroClaims]

\* a request with no Authorization header: Header["Authorization"] is nil
NoHeader == [values |-> <<>>, tok |-> Blank]

\* what the Authentication middleware did with a request
NoHttp == [header |-> NoHeader, got |-> [token |-> "", err |-> "nil"],
           token |-> "", err |-> "nil", verified |-> FALSE,
           status |-> 0, aborted |-> FALSE, next |-> FALSE, panicked |-> FALSE,
           ID |-> "", Role |-> ""]

Idle == [op |-> "none", access |-> Blank, refresh |-> Blank, csrf |-> 0,
         prof |-> NoProfile, out |-> NoOut, calls |-> 0, writes |-> 0,
         http |-> NoHttp,
         pre |-> [store |-> [refresh |-> EmptyMap, blocked |-> EmptyMap],
                  refreshTokens |-> EmptyMap, blockedTokens |-> <<>>,
                  rotated |-> {}, rnd |-> 0]]

\* tokens an outsider fabricates: a header algorithm of either family, its
\* own key, its own claims and CSRF value, an expiry in the past or future
ForgeAlgs == {"HS256", "RS256"}
AttackerCsrf == MaxRand + 1
WrongCsrf == MaxRand + 2
Forged == {[shape |-> "jwt", pre |-> FALSE, alg |-> a, key |-> "other",
            uid |-> "id2", csrf |-> AttackerCsrf, role |-> "admin",
            tenant |-> "t2", sub |-> "u2", exp |-> e, jti |-> 0] :
              a \in ForgeAlgs, e \in {1, MaxTime + 1}}

IssuedAccess == {t \in issued : t.jti = 0}
IssuedRefresh == {t \in issued : t.jti # 0}

AccessInputs == IssuedAccess \cup {[t EXCEPT !.pre = TRUE] : t \in IssuedAccess}
                \cup Forged \cup {RawString, BadHeader}

RefreshInputs == IssuedRefresh \cup {RawString}

CsrfInputs(a) == {0, WrongCsrf, a.csrf}

Returned(toks) == {t \in toks : t.shape = "jwt"}

Commit(m) ==
    /\ store' = [refresh |-> m.sr, blocked |-> m.sb]
    /\ refreshTokens' = m.cr
    /\ blockedTokens' = m.cb
    /\ rnd' = m.rnd

\* the goroutines that call the instance side by side
Procs == {1, 2}

\* a caller's frame: at is its next statement on shared state, out the named
\* results of the call, the rest the inputs and local variables
NoProc == [at |-> "idle", op |-> "none", access |-> Blank, refresh |-> Blank,
           csrf |-> 0, prof |-> NoProfile, path |-> "", need |-> 0, jti |-> 0,
           exp |-> 0, fsub |-> "", seen |-> <<>>, out |-> NoOut]

NoRecords == [refresh |-> {}, blocked |-> {}]

Init ==
    /\ cfg \in [alg : Algs, accessTokenValidTime : AccessLifetimes,
                refreshTokenValidTime : RefreshLifetimes]
    /\ now = 1
    /\ store = [refresh |-> EmptyMap, blocked |-> EmptyMap]
    /\ refreshTokens = EmptyMap
    /\ blockedTokens = <<>>
    /\ rnd = 1
    /\ issued = {}
    /\ last = Idle
    /\ revoked = {}
    /\ rotated = {}
    /\ generated = {}
    /\ inst = "ready"
    /\ procs = [p \in Procs |-> NoProc]
    /\ durable = NoRecords

\* the clock advances between calls
Tick ==
    /\ last = Idle
    /\ now < MaxTime
    /\ now' = now + 1
    /\ last' = Idle
    /\ UNCHANGED <<cfg, store, refreshTokens, blockedTokens, rnd, issued, revoked, rotated, generated>>
    /\ UNCHANGED concVars

\* the call recorded in last returns to its caller
Return ==
    /\ last # Idle
    /\ last' = Idle
    /\ UNCHANGED <<cfg, now, store, refreshTokens, blockedTokens, rnd, issued, revoked,
                    rotated, generated>>
    /\ UNCHANGED concVars

\* GenerateToken for one of the given profiles; the generator's next value is
\* one of seeds and the generator stays below top
GenerateTokenUpTo(profiles, seeds, top) ==
    /\ last = Idle
    /\ \E pr \in profiles, failAt \in 0..MaxStoreCalls, seed \in seeds :
     \E m \in {[Ctx(failAt) EXCEPT !.rnd = seed]} :
     \E r \in {GenerateToken(m, pr.uid, pr.role, pr.sub, pr.tenant)} :
         /\ r.m.rnd <= top
         /\ Commit(r.m)
         /\ issued' = issued \cup Returned({r.access, r.refresh})
         /\ last' = [Idle EXCEPT !.op = "GenerateToken", !.prof = pr,
                       !.out = [NoOut EXCEPT !.access = r.access, !.refresh = r.refresh,
                                             !.csrf = r.csrf, !.expiresAt = r.expiresAt,
                                             !.err = r.err],
                       !.calls = r.m.calls, !.writes = r.m.writes, !.pre = Snapshot]
         /\ generated' = IF r.err = "nil"
                         THEN generated \cup {[access |-> r.access, prof |-> pr, csrf |-> r.csrf]}
                         ELSE generated
         /\ UNCHANGED <<cfg, now, revoked, rotated>>
    /\ UNCHANGED concVars

GenerateTokenFor(profiles, seeds) == GenerateTokenUpTo(profiles, seeds, MaxRand + 1)

DoGenerateToken == GenerateTokenFor(Profiles, {rnd})

DoVerifyToken ==
    /\ last = Idle
    /\ \E a \in AccessInputs :
     \E m \in {Ctx(0)} :
     \E r \in {VerifyToken(m, a)} :
         /\ Commit(r.m)
         /\ last' = [Idle EXCEPT !.op = "VerifyToken", !.access = a,
                       !.out = [NoOut EXCEPT !.access = r.raw, !.ok = r.ok,
                                             !.claims = r.claims, !.err = r.err],
                       !.calls = r.m.calls, !.writes = r.m.writes, !.pre = Snapshot]
         /\ UNCHANGED <<cfg, now, issued, revoked, rotated, generated>>
    /\ UNCHANGED concVars

\* DeleteToken with an access token and a refresh token of the given sets
DeleteTokenWith(accessTokens, refreshTokenStrings) ==
    /\ last = Idle
    /\ \E a \in accessTokens, f \in refreshTokenStrings, failAt \in 0..MaxStoreCalls :
     \E m \in {Ctx(failAt)} :
     \E r \in {DeleteToken(m, a, f)} :
         /\ Commit(r.m)
         /\ revoked' = IF r.err = "nil" THEN revoked \cup {a} ELSE revoked
         /\ last' = [Idle EXCEPT !.op = "DeleteToken", !.access = a, !.refresh = f,
                       !.out = [NoOut EXCEPT !.err = r.err],
                       !.calls = r.m.calls, !.writes = r.m.writes, !.pre = Snapshot]
         /\ UNCHANGED <<cfg, now, issued, rotated, generated>>
    /\ UNCHANGED concVars

DoDeleteToken == DeleteTokenWith(AccessInputs, RefreshInputs)

\* RenewToken with tokens of the given sets and a CSRF secret that is the
\* access token's or one of others; the generator stays below top
RenewTokenWith(accessTokens, refreshTokenStrings, others, top) ==
    /\ last = Idle
    /\ \E a \in accessTokens, f \in refreshTokenStrings, failAt \in 0..MaxStoreCalls :
     \E c \in CsrfInputs(a) \cap (others \cup {a.csrf}), m \in {Ctx(failAt)} :
     \E r \in {RenewToken(m, a, f, c)} :
         /\ r.m.rnd <= top
         /\ Commit(r.m)
         /\ issued' = issued \cup Returned({r.access, r.refresh})
         /\ rotated' = IF r.err = "nil" THEN rotated \cup {f} ELSE rotated
         /\ last' = [Idle EXCEPT !.op = "RenewToken", !.access = a, !.refresh = f,
                       !.csrf = c,
                       !.out = [NoOut EXCEPT !.access = r.access, !.refresh = r.refresh,
                                             !.csrf = r.csrf, !.expiresAt = r.expiresAt,
                                             !.userId = r.userId, !.err = r.err],
                       !.calls = r.m.calls, !.writes = r.m.writes, !.pre = Snapshot]
         /\ UNCHANGED <<cfg, now, revoked, generated>>
    /\ UNCHANGED concVars

DoRenewToken == RenewTokenWith(AccessInputs, RefreshInputs, {0, WrongCsrf}, MaxRand + 1)

Next == Tick \/ Return \/ DoGenerateToken \/ DoVerifyToken \/ DoDeleteToken \/ DoRenewToken

Spec == Init /\ [][Next]_vars

\* ------------------------------------------------- callers running side by side
\* The package has no lock: a call is a sequence of statements on the shared
\* store and the shared package variables, and the statements of two calls
\* interleave.  A step below is one such statement together with the local
\* computation that follows it up to the next one.
ConcAccessInputs == IssuedAccess
ConcRefreshInputs == IssuedRefresh

RECURSIVE Reserved(_)
Reserved(S) ==
    IF S = {} THEN 0
    ELSE LET q == CHOOSE x \in S : TRUE IN procs[q].need + Reserved(S \ {q})

\* random values left for a new call that draws n of them
CanDraw(n) == rnd + Reserved(Procs) + n <= MaxRand + 1

Running(p) == inst = "ready" /\ procs[p].at # "idle"

Set(p, pr) == procs' = [procs EXCEPT ![p] = pr]

\* return: the named results leave the function
Finish(pr, err) == [pr EXCEPT !.at = "done", !.need = 0, !.out.err = err]

\* the failure of a call that hands back no refresh token
Fail(pr, err) == [pr EXCEPT !.at = "done", !.need = 0, !.out.err = err,
                            !.out.refresh = Blank]

\* updateRefreshTokenExp up to deleteRefreshToken's repository lookup
enterUpdateRefreshTokenExp(pr) ==
    Bind(ParseWithClaims(pr.refresh), LAMBDA q :
      IF q.errs # {} THEN Fail(pr, "ParserError")
      ELSE Bind(verifyRefreshToken(pr.refresh), LAMBDA v :
        IF v.err # "nil" THEN Fail(pr, v.err)
        ELSE [pr EXCEPT !.at = "findRefreshToken"]))

\* updateAccessToken up to checkRefreshToken
enterUpdateAccessToken(pr) ==
    Bind(ParseWithClaims(pr.refresh), LAMBDA q :
      IF q.errs # {} THEN Fail(pr, "ParserError")
      ELSE [pr EXCEPT !.at = "checkRefreshToken"])

\* RenewToken up to its first statement on shared state
enterRenewToken(pr) ==
    Bind(Strip(pr.access), LAMBDA tok :
      IF pr.csrf = 0 THEN Fail(pr, "Unauthorized")
      ELSE Bind(ParseWithClaims(tok), LAMBDA q :
        IF q.tokNil THEN Fail(pr, "panic")
        ELSE IF ~q.hasClaims THEN Fail(pr, "ParserError")
        ELSE IF csrfMismatch(pr.csrf, q.claims) THEN Fail(pr, "Unauthorized")
        ELSE IF q.valid
        THEN enterUpdateRefreshTokenExp(
               [pr EXCEPT !.path = "valid", !.need = 1,
                          !.out.csrf = q.claims.csrf, !.out.access = tok])
        ELSE IF "Expired" \in q.errs
        THEN enterUpdateAccessToken([pr EXCEPT !.path = "expired", !.need = 2])
        ELSE Fail(pr, "Unauthorized")))

\* VerifyToken up to its look into blockedTokens
enterVerifyToken(pr) ==
    IF ParseWithClaims(Strip(pr.access)).errs = {}
    THEN [pr EXCEPT !.at = "contains"]
    ELSE Finish(pr, VerifyToken(Ctx(0), pr.access).err)

CallGenerateToken(p) ==
    /\ inst = "ready" /\ procs[p].at = "idle"
    /\ CanDraw(2)
    /\ \E pf \in Profiles :
         Set(p, [NoProc EXCEPT !.op = "GenerateToken", !.prof = pf,
                               !.at = "lookupJti", !.out.csrf = rnd,
                               !.exp = now + cfg.refreshTokenValidTime,
                               !.jti = rnd + 1])
    /\ rnd' = rnd + 2
    /\ UNCHANGED <<cfg, now, store, refreshTokens, blockedTokens, issued, inst,
                   durable>>
    /\ UNCHANGED seqVars

CallVerifyToken(p) ==
    /\ inst = "ready" /\ procs[p].at = "idle"
    /\ \E a \in ConcAccessInputs :
         Set(p, enterVerifyToken([NoProc EXCEPT !.op = "VerifyToken", !.access = a]))
    /\ UNCHANGED <<cfg, now, store, refreshTokens, blockedTokens, rnd, issued, inst,
                   durable>>
    /\ UNCHANGED seqVars

CallDeleteToken(p) ==
    /\ inst = "ready" /\ procs[p].at = "idle"
    /\ \E a \in ConcAccessInputs, f \in ConcRefreshInputs :
       \E pr \in {[NoProc EXCEPT !.op = "DeleteToken", !.access = a, !.refresh = f]} :
       \E v \in {verifyRefreshToken(f)} :
         Set(p, IF v.err # "nil" THEN Finish(pr, v.err)
                ELSE [pr EXCEPT !.at = "findRefreshToken"])
    /\ UNCHANGED <<cfg, now, store, refreshTokens, blockedTokens, rnd, issued, inst,
                   durable>>
    /\ UNCHANGED seqVars

CallRenewToken(p) ==
    /\ inst = "ready" /\ procs[p].at = "idle"
    /\ \E a \in ConcAccessInputs, f \in ConcRefreshInputs :
       \E pr \in {enterRenewToken([NoProc EXCEPT !.op = "RenewToken", !.access = a,
                                                 !.refresh = f, !.csrf = a.csrf])} :
         /\ CanDraw(pr.need)
         /\ Set(p, pr)
    /\ UNCHANGED <<cfg, now, store, refreshTokens, blockedTokens, rnd, issued, inst,
                   durable>>
    /\ UNCHANGED seqVars

\* updateAccessToken: checkRefreshToken reads the map, then the new access
\* token is minted and updateRefreshTokenExp begins
checkRefreshTokenStep(p) ==
    /\ Running(p) /\ procs[p].at = "checkRefreshToken"
    /\ \E pr \in {procs[p]}, m \in {Ctx(0)} :
         IF checkRefreshToken(m, pr.refresh.jti)
         THEN \E old \in {ParseWithClaims(Strip(pr.access)).claims} :
              \E a \in {createAccessToken(old.uid, old.role, old.sub, old.tenant, rnd)} :
                /\ Set(p, enterUpdateRefreshTokenExp(
                            [pr EXCEPT !.need = @ - 1, !.out.access = a.token,
                                       !.out.csrf = rnd, !.out.expiresAt = a.exp,
                                       !.out.userId = old.uid]))
                /\ rnd' = rnd + 1
         ELSE /\ Set(p, Fail(pr, "Unauthorized"))
              /\ rnd' = rnd
    /\ UNCHANGED <<cfg, now, store, refreshTokens, blockedTokens, issued, inst,
                   durable>>
    /\ UNCHANGED seqVars

\* deleteRefreshToken / DeleteToken: findRefreshTokenFromDatabase and the
\* subject comparison
findRefreshTokenFromDatabase(p) ==
    /\ Running(p) /\ procs[p].at = "findRefreshToken"
    /\ \E pr \in {procs[p]}, failAt \in {0, 1} :
       \E f \in {FindRefreshToken(Ctx(failAt), pr.refresh.jti)} :
         Set(p, IF f.err # "nil" THEN Fail(pr, f.err)
                ELSE IF subjectMismatch(f.sub, pr.refresh.sub)
                THEN Fail(pr, "RefreshTokenNotFoundInDatabase")
                ELSE [pr EXCEPT !.at = "deleteRefreshToken", !.fsub = f.sub])
    /\ UNCHANGED <<cfg, now, store, refreshTokens, blockedTokens, rnd, issued, inst,
                   durable>>
    /\ UNCHANGED seqVars

deleteRefreshTokenFromDatabase(p) ==
    /\ Running(p) /\ procs[p].at = "deleteRefreshToken"
    /\ \E pr \in {procs[p]}, failAt \in {0, 1} :
       \E d \in {DeleteRefreshToken(Ctx(failAt), pr.refresh.jti)} :
         /\ store' = [store EXCEPT !.refresh = d.m.sr]
         /\ Set(p, IF d.err # "nil" THEN Fail(pr, d.err)
                   ELSE [pr EXCEPT !.at = "delete"])
    /\ UNCHANGED <<cfg, now, refreshTokens, blockedTokens, rnd, issued, inst, durable>>
    /\ UNCHANGED seqVars

\* delete(refreshTokens, token.JTI); DeleteToken goes on to VerifyToken,
\* updateRefreshTokenExp to storeRefreshToken's first random JTI
cacheDelete(p) ==
    /\ Running(p) /\ procs[p].at = "delete"
    /\ refreshTokens' = MapDel(refreshTokens, procs[p].refresh.jti)
    /\ \E pr \in {procs[p]} :
         IF pr.op = "DeleteToken"
         THEN /\ Set(p, IF ParseWithClaims(Strip(pr.access)).errs = {}
                        THEN [pr EXCEPT !.at = "contains"]
                        ELSE Finish(pr, VerifyToken(Ctx(0), pr.access).err))
              /\ rnd' = rnd
         ELSE /\ Set(p, [pr EXCEPT !.at = "lookupJti", !.jti = rnd, !.need = @ - 1,
                                   !.exp = now + cfg.refreshTokenValidTime])
              /\ rnd' = rnd + 1
    /\ UNCHANGED <<cfg, now, store, blockedTokens, issued, inst, durable>>
    /\ UNCHANGED seqVars

\* storeRefreshToken: for refreshTokens[jti] != "" { jti = new random }
lookupJti(p) ==
    /\ Running(p) /\ procs[p].at = "lookupJti"
    /\ \E pr \in {procs[p]}, m \in {Ctx(0)} :
       \E g \in {retryJti(m, pr.jti)} :
         /\ Set(p, [pr EXCEPT !.at = "storeRefreshToken", !.jti = g.s])
         /\ rnd' = g.m.rnd
    /\ UNCHANGED <<cfg, now, store, refreshTokens, blockedTokens, issued, inst,
                   durable>>
    /\ UNCHANGED seqVars

\* the subject the new refresh record is written for
SubjectOf(pr) == IF pr.op = "GenerateToken" THEN pr.prof.sub ELSE pr.refresh.sub

\* the results of a GenerateToken call whose refresh token is tok
Generated(pr, tok) ==
    Bind(createAccessToken(pr.prof.uid, pr.prof.role, pr.prof.sub, pr.prof.tenant,
                           pr.out.csrf), LAMBDA a :
      [pr EXCEPT !.at = "done", !.need = 0, !.out.access = a.token,
                 !.out.refresh = tok, !.out.expiresAt = a.exp, !.out.err = "nil"])

storeFailed_Ignored(err) == FALSE

\* storeRefreshToken: if err != nil { return } after the repository call
storeFailed(err) == err # "nil"

\* storeRefreshTokenToDatabase; GenerateToken drops the error and goes on
storeRefreshTokenToDatabase(p) ==
    /\ Running(p) /\ procs[p].at = "storeRefreshToken"
    /\ \E pr \in {procs[p]}, failAt \in {0, 1} :
       \E w \in {StoreRefreshToken(Ctx(failAt), SubjectOf(pr), pr.jti)} :
         /\ store' = [store EXCEPT !.refresh = w.m.sr]
         /\ durable' = IF w.err = "nil"
                       THEN [durable EXCEPT !.refresh = @ \cup {<<pr.jti, SubjectOf(pr)>>}]
                       ELSE durable
         /\ Set(p, IF ~storeFailed(w.err) THEN [pr EXCEPT !.at = "put"]
                   ELSE IF pr.op = "GenerateToken" THEN Generated(pr, Blank)
                   ELSE Fail(pr, w.err))
    /\ UNCHANGED <<cfg, now, refreshTokens, blockedTokens, rnd, issued, inst>>
    /\ UNCHANGED seqVars

\* the refresh token a call signs once its JTI is recorded
SignedRefresh(pr) ==
    IF pr.op = "GenerateToken"
    THEN sign([ZeroClaims EXCEPT !.csrf = pr.out.csrf, !.jti = pr.jti,
                                 !.sub = pr.prof.sub, !.exp = pr.exp])
    ELSE Bind(sign([ZeroClaims EXCEPT !.csrf = pr.refresh.csrf, !.jti = pr.jti,
                                      !.sub = pr.refresh.sub, !.exp = pr.exp]),
              LAMBDA t :
           IF pr.path = "expired"
           THEN updateRefreshTokenCsrf(t, pr.out.csrf).token
           ELSE t)

\* refreshTokens[jti] = sub, then the token is signed and the call returns
cachePut(p) ==
    /\ Running(p) /\ procs[p].at = "put"
    /\ refreshTokens' = MapPut(refreshTokens, procs[p].jti, SubjectOf(procs[p]))
    /\ \E pr \in {procs[p]} :
         Set(p, IF pr.op = "GenerateToken" THEN Generated(pr, SignedRefresh(pr))
                ELSE Bind(SignedRefresh(pr), LAMBDA t :
                       IF t = Blank THEN Fail(pr, "ParserError")
                       ELSE [Finish(pr, "nil") EXCEPT !.out.refresh = t]))
    /\ UNCHANGED <<cfg, now, store, blockedTokens, rnd, issued, inst, durable>>
    /\ UNCHANGED seqVars

\* VerifyToken's contains(blockedTokens, authToken), and in DeleteToken the
\* test of the verified claims' expiry that follows it
blockedLookup(p) ==
    /\ Running(p) /\ procs[p].at = "contains"
    /\ \E pr \in {procs[p]}, m \in {Ctx(0)} :
       \E v \in {VerifyToken(m, pr.access)} :
         Set(p, IF pr.op = "VerifyToken"
                THEN [Finish(pr, v.err) EXCEPT !.out.access = v.raw, !.out.ok = v.ok,
                                               !.out.claims = v.claims]
                ELSE IF v.err # "nil" THEN Finish(pr, v.err)
                ELSE IF v.ok /\ stillValid(v.claims)
                THEN [pr EXCEPT !.at = "storeBlockedToken", !.exp = v.claims.exp]
                ELSE Finish(pr, "nil"))
    /\ UNCHANGED <<cfg, now, store, refreshTokens, blockedTokens, rnd, issued, inst,
                   durable>>
    /\ UNCHANGED seqVars

storeBlockedTokenToDatabase(p) ==
    /\ Running(p) /\ procs[p].at = "storeBlockedToken"
    /\ \E pr \in {procs[p]}, failAt \in {0, 1} :
       \E b \in {StoreBlockedToken(Ctx(failAt), pr.fsub, pr.access, pr.exp)} :
         /\ store' = [store EXCEPT !.blocked = b.m.sb]
         /\ durable' = IF b.err = "nil"
                       THEN [durable EXCEPT !.blocked = @ \cup {pr.access}]
                       ELSE durable
         /\ Set(p, IF b.err # "nil" THEN Finish(pr, b.err)
                   ELSE [pr EXCEPT !.at = "appendRead"])
    /\ UNCHANGED <<cfg, now, refreshTokens, blockedTokens, rnd, issued, inst>>
    /\ UNCHANGED seqVars

\* blockedTokens = append(blockedTokens, accessToken): the slice is read ...
appendRead(p) ==
    /\ Running(p) /\ procs[p].at = "appendRead"
    /\ Set(p, [procs[p] EXCEPT !.at = "appendWrite", !.seen = blockedTokens])
    /\ UNCHANGED <<cfg, now, store, refreshTokens, blockedTokens, rnd, issued, inst,
                   durable>>
    /\ UNCHANGED seqVars

\* ... and the longer slice is assigned
appendWrite(p) ==
    /\ Running(p) /\ procs[p].at = "appendWrite"
    /\ blockedTokens' = Append(procs[p].seen, procs[p].access)
    /\ Set(p, [Finish(procs[p], "nil") EXCEPT !.seen = <<>>])
    /\ UNCHANGED <<cfg, now, store, refreshTokens, rnd, issued, inst, durable>>
    /\ UNCHANGED seqVars

\* the caller receives the results
Ret(p) ==
    /\ Running(p) /\ procs[p].at = "done"
    /\ Set(p, NoProc)
    /\ issued' = issued \cup Returned({procs[p].out.access, procs[p].out.refresh})
    /\ UNCHANGED <<cfg, now, store, refreshTokens, blockedTokens, rnd, inst, durable>>
    /\ UNCHANGED seqVars

\* statements that read, and statements that write, the refresh map
MapReads == {"checkRefreshToken", "lookupJti", "jtiTaken"}
MapWrites == {"delete", "put"}

\* two callers are at statements on refreshTokens and one of them writes it
MapRace ==
    \E p \in Procs, q \in Procs :
       /\ p # q
       /\ procs[p].at \in MapWrites
       /\ procs[q].at \in MapReads \cup MapWrites

\* the Go runtime ends the process when it detects the unsynchronised map access
Crash ==
    /\ inst = "ready"
    /\ MapRace
    /\ inst' = "crashed"
    /\ UNCHANGED <<cfg, now, store, refreshTokens, blockedTokens, rnd, issued, procs,
                   durable>>
    /\ UNCHANGED seqVars

\* the clock advances; explored between calls only
TickConc ==
    /\ inst = "ready"
    /\ \A p \in Procs : procs[p].at = "idle"
    /\ now < MaxConcTime
    /\ now' = now + 1
    /\ UNCHANGED <<cfg, store, refreshTokens, blockedTokens, rnd, issued, inst, procs,
                   durable>>
    /\ UNCHANGED seqVars

Statement(p) ==
    \/ checkRefreshTokenStep(p)
    \/ findRefreshTokenFromDatabase(p)
    \/ deleteRefreshTokenFromDatabase(p)
    \/ cacheDelete(p)
    \/ lookupJti(p)
    \/ storeRefreshTokenToDatabase(p)
    \/ cachePut(p)
    \/ blockedLookup(p)
    \/ storeBlockedTokenToDatabase(p)
    \/ appendRead(p)
    \/ appendWrite(p)

NextConc ==
    \/ TickConc
    \/ Crash
    \/ \E p \in Procs : CallGenerateToken(p)
    \/ \E p \in Procs : CallVerifyToken(p)
    \/ \E p \in Procs : CallDeleteToken(p)
    \/ \E p \in Procs : CallRenewToken(p)
    \/ \E p \in Procs : Statement(p)
    \/ \E p \in Procs : Ret(p)

\* configurations explored with concurrent callers: one per key family
ConcAlgs == {"HS256", "RS256"}

InitConc == Init /\ cfg.alg \in ConcAlgs

SpecConc == InitConc /\ [][NextConc]_vars


\* ------------------------------------------- random values that can repeat
\* generateRandomString returns 32 random bytes: nothing keeps a value from
\* coming back.  Here every call of it is a step of its own and its result is
\* any value of a small space, so that candidates collide; the clock stands
\* still and callers present tokens that have not expired.
MaxDraw == 2
DrawSpace == 1..MaxDraw

\* the values CSRF secrets are drawn from
MaxCsrfDraw == 1
CsrfSpace == 1..MaxCsrfDraw

\* GenerateToken up to storeRefreshToken's first generateRandomString
DrawGenerateToken(p) ==
    /\ inst = "ready" /\ procs[p].at = "idle"
    /\ \E pf \in Profiles, csrfSecret \in CsrfSpace :
         Set(p, [NoProc EXCEPT !.op = "GenerateToken", !.prof = pf,
                               !.at = "generateJti", !.out.csrf = csrfSecret,
                               !.exp = now + cfg.refreshTokenValidTime])
    /\ UNCHANGED <<cfg, now, store, refreshTokens, blockedTokens, rnd, issued, inst,
                   durable>>
    /\ UNCHANGED seqVars

\* delete(refreshTokens, token.JTI); DeleteToken goes on to VerifyToken,
\* updateRefreshTokenExp to storeRefreshToken
drawCacheDelete(p) ==
    /\ Running(p) /\ procs[p].at = "delete"
    /\ refreshTokens' = MapDel(refreshTokens, procs[p].refresh.jti)
    /\ \E pr \in {procs[p]} :
         Set(p, IF pr.op = "DeleteToken"
                THEN enterVerifyToken(pr)
                ELSE [pr EXCEPT !.at = "generateJti", !.need = 0,
                                !.exp = now + cfg.refreshTokenValidTime])
    /\ UNCHANGED <<cfg, now, store, blockedTokens, rnd, issued, inst, durable>>
    /\ UNCHANGED seqVars

\* jti, err = t.generateRandomString(32), before the loop and in its body
generateJti(p) ==
    /\ Running(p) /\ procs[p].at = "generateJti"
    /\ \E jti \in DrawSpace : Set(p, [procs[p] EXCEPT !.at = "jtiTaken", !.jti = jti])
    /\ UNCHANGED <<cfg, now, store, refreshTokens, blockedTokens, rnd, issued, inst,
                   durable>>
    /\ UNCHANGED seqVars

\* for refreshTokens[jti] != "": the loop goes round or ends
jtiTaken(p) ==
    /\ Running(p) /\ procs[p].at = "jtiTaken"
    /\ Set(p, [procs[p] EXCEPT !.at = IF MapGet(refreshTokens, procs[p].jti) # ""
                                      THEN "generateJti"
                                      ELSE "storeRefreshToken"])
    /\ UNCHANGED <<cfg, now, store, refreshTokens, blockedTokens, rnd, issued, inst,
                   durable>>
    /\ UNCHANGED seqVars

DrawStatement(p) ==
    \/ findRefreshTokenFromDatabase(p)
    \/ deleteRefreshTokenFromDatabase(p)
    \/ drawCacheDelete(p)
    \/ generateJti(p)
    \/ jtiTaken(p)
    \/ storeRefreshTokenToDatabase(p)
    \/ cachePut(p)
    \/ blockedLookup(p)
    \/ storeBlockedTokenToDatabase(p)
    \/ appendRead(p)
    \/ appendWrite(p)

NextDraw ==
    \/ Crash
    \/ \E p \in Procs : DrawGenerateToken(p)
    \/ \E p \in Procs : CallDeleteToken(p)
    \/ \E p \in Procs : CallRenewToken(p)
    \/ \E p \in Procs : DrawStatement(p)
    \/ \E p \in Procs : Ret(p)

InitDraw == Init /\ cfg.alg = "HS256"

SpecDraw == InitDraw /\ [][NextDraw]_vars

\* the scheduler lets every goroutine that can take a step take one
SpecDrawFair == SpecDraw /\ \A p \in Procs : WF_vars(DrawStatement(p))


\* ------------------------------------------------------------- construction
\* KEYS refresh_token:* and a GET per key: every record, as JTI -> subject
FindAllRefreshTokens(m) ==
    IF Fails(m) THEN [m |-> Called(m), tokens |-> EmptyMap, err |-> "StoreError"]
    ELSE [m |-> Called(m), tokens |-> m.sr, err |-> "nil"]

\* the keys of blocked records whose expiry part is not after the clock
ExpiredKeys(sb) == {k \in DOMAIN sb : k[2] <= now}

\* the orders in which KEYS can enumerate a set of keys
Orders(S) == {o \in [1..Cardinality(S) -> S] : \A i, j \in 1..Cardinality(S) :
                                                 o[i] = o[j] => i = j}

\* KEYS blocked_token:*:*; records past their expiry are deleted and skipped,
\* the others are read in the order of enumeration.  A failing GET ends the
\* walk after the expired records in gone have been deleted.
FindAllBlockedTokens(m, order, gone) ==
    IF Fails(m)
    THEN [m |-> [Called(m) EXCEPT !.sb = [k \in DOMAIN m.sb \ gone |-> m.sb[k]]],
          tokens |-> <<>>, err |-> "StoreError"]
    ELSE [m |-> [Called(m) EXCEPT
                   !.sb = [k \in DOMAIN m.sb \ ExpiredKeys(m.sb) |-> m.sb[k]]],
          tokens |-> [i \in 1..Len(order) |-> m.sb[order[i]]],
          err |-> "nil"]

initCachedRefreshTokens(m) ==
    Bind([m EXCEPT !.cr = EmptyMap], LAMBDA m0 :
    Bind(FindAllRefreshTokens(m0), LAMBDA f :
      IF f.err # "nil" THEN [m |-> f.m, err |-> f.err]
      ELSE [m |-> [f.m EXCEPT !.cr = f.tokens], err |-> "nil"]))

initCachedBlockedTokens_Skipped(m, order, gone) == [m |-> m, err |-> "nil"]

initCachedBlockedTokens(m, order, gone) ==
    Bind(FindAllBlockedTokens(m, order, gone), LAMBDA f :
      IF f.err # "nil" THEN [m |-> f.m, err |-> f.err]
      ELSE [m |-> [f.m EXCEPT !.cb = f.tokens], err |-> "nil"])

\* NewHS256JWT, NewHS512JWT, NewRS256JWT (keyOk: initRS256JWT loaded the keys)
NewJWT(m, keyOk, order, gone) ==
    IF cfg.alg = "RS256" /\ ~keyOk THEN [m |-> m, inst |-> "none", err |-> "KeyError"]
    ELSE Bind(initCachedRefreshTokens(m), LAMBDA r :
      IF r.err # "nil" THEN [m |-> r.m, inst |-> "none", err |-> r.err]
      ELSE Bind(initCachedBlockedTokens(r.m, order, gone), LAMBDA b :
        IF b.err # "nil" THEN [m |-> b.m, inst |-> "none", err |-> b.err]
        ELSE [m |-> b.m, inst |-> "ready", err |-> "nil"]))

\* what a store can hold when a process starts: refresh records and blocked
\* records as earlier runs of the service wrote them
StartJtis == {1, 2}
StartRefresh == UNION {[J -> {pf.sub : pf \in Profiles}] : J \in SUBSET StartJtis}

\* the access token of profile pf that expires at e
BlockedAt(pf, e) ==
    sign([uid |-> pf.uid, csrf |-> e, role |-> pf.role, tenant |-> pf.tenant,
          sub |-> pf.sub, exp |-> e, jti |-> 0])

StartKeys == {<<pf.sub, e>> : pf \in Profiles, e \in 2..(MaxTime + 1)}
StartBlocked ==
    {[k \in K |-> BlockedAt(CHOOSE pf \in Profiles : pf.sub = k[1], k[2])] :
       K \in SUBSET StartKeys}

\* a process has started and no constructor has run: the package variables
\* hold their zero values
InitStart ==
    /\ cfg \in [alg : Algs, accessTokenValidTime : AccessLifetimes,
                refreshTokenValidTime : RefreshLifetimes]
    /\ now \in 1..MaxTime
    /\ store \in [refresh : StartRefresh, blocked : StartBlocked]
    /\ refreshTokens = EmptyMap
    /\ blockedTokens = <<>>
    /\ rnd = 1
    /\ issued = {}
    /\ last = Idle
    /\ revoked = {}
    /\ rotated = {}
    /\ generated = {}
    /\ inst = "none"
    /\ procs = [p \in Procs |-> NoProc]
    /\ durable = NoRecords

\* a constructor call; it may be repeated, after a failure or for a second
\* instance over the same store
DoNewJWT ==
    /\ last = Idle
    /\ \E failAt \in 0..2, keyOk \in BOOLEAN,
          order \in Orders(DOMAIN store.blocked \ ExpiredKeys(store.blocked)),
          gone \in SUBSET ExpiredKeys(store.blocked) :
     \E m \in {Ctx(failAt)} :
     \E r \in {NewJWT(m, keyOk, order, gone)} :
         /\ Commit(r.m)
         /\ inst' = r.inst
         /\ last' = [Idle EXCEPT !.op = "New", !.out = [NoOut EXCEPT !.err = r.err],
                       !.calls = r.m.calls, !.pre = Snapshot]
         /\ UNCHANGED <<cfg, now, issued, revoked, rotated, generated, procs, durable>>

\* the constructor's results reach its caller
ReturnNew ==
    /\ last # Idle
    /\ last' = Idle
    /\ UNCHANGED <<cfg, now, store, refreshTokens, blockedTokens, rnd, issued, revoked,
                    rotated, generated>>
    /\ UNCHANGED concVars

NextStart == DoNewJWT \/ ReturnNew

SpecStart == InitStart /\ [][NextStart]_vars

\* ------------------------------------------------ constructor parameters
\* The constructors store refreshTokenValidTime and accessTokenValidTime as
\* they are given: every pair of durations is accepted.
MaxLifetime == 2
Lifetimes == 1..MaxLifetime

\* a process has started over an empty store; the constructor is called with
\* any algorithm and any pair of lifetimes
InitAny ==
    /\ cfg \in [alg : Algs, accessTokenValidTime : Lifetimes,
                refreshTokenValidTime : Lifetimes]
    /\ now = 1
    /\ store = [refresh |-> EmptyMap, blocked |-> EmptyMap]
    /\ refreshTokens = EmptyMap
    /\ blockedTokens = <<>>
    /\ rnd = 1
    /\ issued = {}
    /\ last = Idle
    /\ revoked = {}
    /\ rotated = {}
    /\ generated = {}
    /\ inst = "none"
    /\ procs = [p \in Procs |-> NoProc]
    /\ durable = NoRecords

\* GenerateToken on the instance a constructor returned
GenerateOnInstance == inst = "ready" /\ DoGenerateToken

NextAny == DoNewJWT \/ GenerateOnInstance \/ Tick \/ Return

SpecAny == InitAny /\ [][NextAny]_vars

\* ------------------------------------------------------- a second instance
\* The caches are package variables: an instance constructed later, over its
\* own repository, loads that repository into the same refreshTokens and
\* blockedTokens.
PeerJti == MaxRand + 1

\* what the repository of the second instance holds
PeerStores == {[refresh |-> EmptyMap, blocked |-> EmptyMap],
               [refresh |-> (PeerJti :> "u2"), blocked |-> EmptyMap]}

\* a constructor call with another repository, while the first instance is
\* in use; the first instance's repository is not touched
DoNewPeerJWT ==
    /\ last = Idle
    /\ \E peer \in PeerStores, failAt \in 0..2, keyOk \in BOOLEAN :
       \E order \in Orders(DOMAIN peer.blocked \ ExpiredKeys(peer.blocked)),
          gone \in SUBSET ExpiredKeys(peer.blocked) :
       \E m \in {[Ctx(failAt) EXCEPT !.sr = peer.refresh, !.sb = peer.blocked]} :
       \E r \in {NewJWT(m, keyOk, order, gone)} :
         /\ refreshTokens' = r.m.cr
         /\ blockedTokens' = r.m.cb
         /\ last' = [Idle EXCEPT !.op = "NewPeer", !.out = [NoOut EXCEPT !.err = r.err],
                       !.calls = r.m.calls, !.pre = Snapshot]
         /\ UNCHANGED <<cfg, now, store, rnd, issued, revoked, rotated, generated>>
    /\ UNCHANGED concVars

NextPeer == Next \/ DoNewPeerJWT

SpecPeer == InitConc /\ [][NextPeer]_vars

\* --------------------------------------------------- a JTI that comes back
\* One caller at a time, two subjects, and a generator that may return a
\* value it has returned before: a JTI whose record was deleted can be drawn
\* again, for another subject, while a token carrying it is still around.
MaxSessions == 2

TwoProfiles == Profiles \cup {[uid |-> "id3", role |-> "user", sub |-> "u3",
                               tenant |-> "t1"]}

GenerateAgain ==
    /\ Cardinality(generated) < MaxSessions
    /\ GenerateTokenFor(TwoProfiles, 1..(MaxRand - 1))

\* DeleteToken with tokens the instance handed out
DeleteIssued == DeleteTokenWith(IssuedAccess, IssuedRefresh)

NextReuse == Tick \/ Return \/ GenerateAgain \/ DeleteIssued

SpecReuse == InitConc /\ [][NextReuse]_vars

\* ------------------------------------------------------ sessions side by side
\* One caller at a time and two subjects whose sessions are renewed in turn
\* with the tokens and CSRF secrets the instance handed out.
MaxPairRand == 6

GeneratePair ==
    /\ Cardinality(generated) < MaxSessions
    /\ GenerateTokenUpTo(TwoProfiles, {rnd}, MaxPairRand + 1)

RenewIssued == RenewTokenWith(IssuedAccess, IssuedRefresh, {}, MaxPairRand + 1)

NextPair == Tick \/ Return \/ GeneratePair \/ RenewIssued

InitPair == Init /\ cfg.alg = "HS256"

SpecPair == InitPair /\ [][NextPair]_vars

\* ------------------------------------------------------------------ restart
\* The process ends and starts again over the same store: the package
\* variables are back at their zero values and a constructor loads them.
\* DeleteToken on the instance a constructor returned
DeleteOnInstance == inst = "ready" /\ DeleteIssued

NextRestart == Tick \/ Return \/ GenerateOnInstance \/ DeleteOnInstance \/ DoNewJWT

SpecRestart == InitPair /\ [][NextRestart]_vars

\* ------------------------------------------------------- the gin middleware
\* An Authorization header value is a text of words and single spaces; the
\* word "token" stands for the access-token string the request carries (tok).
\* Two words never stand side by side: that would be one longer word.
MaxHeaderLen == 3
Pieces == {" ", "Bearer", "Basic", "token"}

HeaderTexts ==
    UNION {{t \in [1..n -> Pieces] :
              \A i \in 1..(n - 1) : t[i] = " " \/ t[i + 1] = " "} : n \in 0..MaxHeaderLen}

\* the Authorization headers of a request: none, or one value
Headers(toks) ==
    {NoHeader} \cup {[values |-> <<t>>, tok |-> k] : t \in HeaderTexts, k \in toks}

\* strings.Split(s, " "): one part more than there are spaces
RECURSIVE SplitFrom(_, _)
SplitFrom(text, parts) ==
    IF text = <<>> THEN parts
    ELSE IF Head(text) = " " THEN SplitFrom(Tail(text), Append(parts, ""))
    ELSE SplitFrom(Tail(text), [parts EXCEPT ![Len(parts)] = Head(text)])

Split(text) == SplitFrom(text, <<"">>)

\* authorization[1]: an index past the end of the slice is a run-time panic
secondPart(authorization) ==
    IF Len(authorization) < 2 THEN [panic |-> TRUE, token |-> ""]
    ELSE [panic |-> FALSE, token |-> authorization[2]]

GetAccessTokenFromHeader(h) ==
    IF Len(h.values) = 0 THEN [token |-> "", err |-> "Unauthorized"]
    ELSE Bind(Split(h.values[1]), LAMBDA authorization :
         Bind(secondPart(authorization), LAMBDA t :
           IF t.panic THEN [token |-> "", err |-> "panic"]
           ELSE IF authorization[1] # "Bearer"
           THEN [token |-> t.token, err |-> "Unauthorized"]
           ELSE IF t.token = ""
           THEN [token |-> t.token, err |-> "Unauthorized"]
           ELSE [token |-> t.token, err |-> "nil"]))

\* the string a word of the header is: the request's token, or plain text
TokenOf(h, word) == IF word = "token" THEN h.tok ELSE RawString

\* the handler Authentication(jwt) returns, run on a request with header h
Authentication(m, h) ==
    Bind(GetAccessTokenFromHeader(h), LAMBDA g :
      IF g.err = "panic"
      THEN [NoHttp EXCEPT !.header = h, !.got = g, !.err = "panic",
                          !.panicked = TRUE]
      ELSE IF g.err # "nil"
      THEN [NoHttp EXCEPT !.header = h, !.got = g, !.token = g.token,
                          !.err = g.err, !.status = 401, !.aborted = TRUE]
      ELSE Bind(VerifyToken(m, TokenOf(h, g.token)), LAMBDA v :
        IF v.err # "nil"
        THEN [NoHttp EXCEPT !.header = h, !.got = g, !.token = g.token,
                            !.err = v.err, !.status = 401, !.aborted = TRUE]
        ELSE [NoHttp EXCEPT !.header = h, !.got = g, !.token = g.token,
                            !.verified = TRUE,
                            !.ID = v.claims.uid, !.Role = v.claims.role,
                            !.next = TRUE]))

\* a request reaches the middleware
Serve ==
    /\ last = Idle
    /\ \E h \in Headers(AccessInputs) :
       \E r \in {Authentication(Ctx(0), h)} :
         last' = [Idle EXCEPT !.op = "Authentication", !.access = h.tok,
                              !.http = r, !.pre = Snapshot]
    /\ UNCHANGED <<cfg, now, store, refreshTokens, blockedTokens, rnd, issued, revoked,
                   rotated, generated>>
    /\ UNCHANGED concVars

NextHttp == Tick \/ Return \/ DoGenerateToken \/ DeleteIssued \/ Serve

SpecHttp == Init /\ [][NextHttp]_vars

\* ------------------------------------------------------- notions of the spec
\* signed by this instance: its configured algorithm and its own key
CorrectlySigned(t) ==
    /\ t.shape = "jwt"
    /\ ~t.pre
    /\ t.alg = cfg.alg
    /\ t.key = (IF cfg.alg = "RS256" THEN "priv" ELSE "secret")

Expired(t) == t.exp # 0 /\ now > t.exp

Family(alg) == IF alg \in HMACAlgs THEN "HMAC" ELSE "RSA"

Bearer(t) == [t EXCEPT !.pre = TRUE]

\* a refresh token whose JTI the given store and cache hold for its subject
Live(f, st, cache) ==
    /\ f.jti # 0
    /\ MapGet(cache, f.jti) = f.sub
    /\ f.jti \in DOMAIN st.refresh
    /\ st.refresh[f.jti] = f.sub

\* ------------------------------------------------------------------ claims
\* C1: when the store fails while GenerateToken persists the refresh record,
\* GenerateToken returns the store error and no access token; a nil error
\* with an access token implies a durably recorded refresh JTI.
C1_NoTokenWithoutDurableRefresh ==
    (last.op = "GenerateToken" /\ last.out.err = "nil" /\ last.out.access.shape = "jwt")
        => /\ last.out.refresh.shape = "jwt"
           /\ last.out.refresh.jti \in DOMAIN store.refresh

\* C2: once DeleteToken(access, refresh) has returned nil, every later
\* VerifyToken(access) before the token's expiry returns Unauthorized.
C2_RevokedStaysRejected ==
    (last.op = "VerifyToken" /\ last.access \in revoked /\ ~Expired(last.access))
        => last.out.err = "Unauthorized"

\* C3: RenewToken returns Unauthorized and mints no access token whenever the
\* presented access token is not correctly signed for this instance, whatever
\* claims it carries (stated for calls whose refresh token is in order, so
\* that the access token alone decides the outcome).
C3_RenewRejectsBadSignature ==
    (last.op = "RenewToken" /\ Strip(last.access).shape = "jwt"
       /\ ~CorrectlySigned(Strip(last.access))
       /\ CorrectlySigned(last.refresh) /\ ~Expired(last.refresh))
        => /\ last.out.err = "Unauthorized"
           /\ last.out.access = Blank

\* C6: for every configuration, the access token of a GenerateToken call that
\* returned nil verifies, before its expiry and while not revoked, with the
\* subject, role, tenant, user id and CSRF secret of that call.
C6_RoundTrip ==
    \A g \in generated :
       (~Expired(g.access) /\ g.access \notin revoked /\ Bearer(g.access) \notin revoked)
         => LET v == VerifyToken(Ctx(0), g.access)
            IN /\ v.err = "nil"
               /\ v.claims.sub = g.prof.sub
               /\ v.claims.role = g.prof.role
               /\ v.claims.tenant = g.prof.tenant
               /\ v.claims.uid = g.prof.uid
               /\ v.claims.csrf = g.csrf

\* C7: VerifyToken answers Unauthorized for every token whose header algorithm
\* is of the other family than the instance's.
C7_OtherFamilyUnauthorized ==
    (last.op = "VerifyToken" /\ Strip(last.access).shape = "jwt"
       /\ Family(Strip(last.access).alg) # Family(cfg.alg))
        => last.out.err = "Unauthorized"

\* C8: VerifyToken answers ExpiredToken exactly for correctly signed tokens past
\* their expiry, accepts correctly signed, unexpired, unblocked tokens, and
\* answers Unauthorized for every other token whatever expiry it carries.
C8_ExpiredOnlyWhenSigned ==
    last.op = "VerifyToken" =>
      LET t == Strip(last.access)
      IN /\ (last.out.err = "ExpiredToken") <=> (CorrectlySigned(t) /\ Expired(t))
         /\ (CorrectlySigned(t) /\ ~Expired(t) /\ ~contains(blockedTokens, t))
               => last.out.err = "nil"
         /\ ~CorrectlySigned(t) => last.out.err = "Unauthorized"


\* a RenewToken call whose CSRF secret is the one in its access token
CsrfPresented == last.csrf # 0 /\ last.csrf = Strip(last.access).csrf

\* a RenewToken call that presents a refresh token an earlier call rotated
ReplaysRotated ==
    /\ last.op = "RenewToken"
    /\ last.refresh \in last.pre.rotated
    /\ CorrectlySigned(Strip(last.access))
    /\ CsrfPresented

\* C4 as claimed: after a RenewToken that rotated the JTI, every RenewToken
\* presenting the old refresh token (still-valid or expired access token,
\* matching CSRF secret) fails with Unauthorized.
C4_ReplayUnauthorized == ReplaysRotated => last.out.err = "Unauthorized"

\* C4 as amended: such a call fails and creates no refresh record; with an
\* unexpired old refresh token the error is Unauthorized on the expired-access
\* path and the repository's lookup error on the still-valid-access path.
C4_ReplayFails ==
    ReplaysRotated =>
      /\ last.out.err # "nil"
      /\ last.out.refresh = Blank
      /\ last.writes = 0
      /\ store = last.pre.store
      /\ refreshTokens = last.pre.refreshTokens
      /\ ~Expired(last.refresh) =>
           IF Expired(Strip(last.access))
           THEN last.out.err = "Unauthorized" /\ last.out.access = Blank
           ELSE last.out.err \in {"TokenAlreadyRefreshed", "StoreError"}

C4_Witness ==
    /\ ReplaysRotated
    /\ ~Expired(last.refresh)
    /\ ~Expired(Strip(last.access))
    /\ last.out.err = "TokenAlreadyRefreshed"

\* C5: RenewToken with an empty CSRF secret, or one that differs from the
\* secret embedded in the presented access token, returns Unauthorized without
\* a repository call and leaves store and cache as they were.
C5_CsrfBinding ==
    (last.op = "RenewToken"
       /\ (last.csrf = 0 \/ (Strip(last.access).shape = "jwt" /\ ~CsrfPresented)))
        => /\ last.out.err = "Unauthorized"
           /\ last.out.access = Blank /\ last.out.refresh = Blank
           /\ last.calls = 0
           /\ refreshTokens = last.pre.refreshTokens
           /\ blockedTokens = last.pre.blockedTokens
           /\ store = last.pre.store

C5_Witness ==
    /\ last.op = "RenewToken"
    /\ last.csrf = WrongCsrf
    /\ CorrectlySigned(last.access) /\ ~Expired(last.access)
    /\ CorrectlySigned(last.refresh) /\ ~Expired(last.refresh)
    /\ Live(last.refresh, last.pre.store, last.pre.refreshTokens)
    /\ last.out.err = "Unauthorized"


\* a RenewToken call with a correctly signed access token, its CSRF secret and
\* a correctly signed, unexpired refresh token that was live when called, and
\* during which the repository answered every call
RenewInOrder ==
    /\ last.op = "RenewToken"
    /\ CorrectlySigned(Strip(last.access))
    /\ CsrfPresented
    /\ CorrectlySigned(last.refresh) /\ ~Expired(last.refresh)
    /\ Live(last.refresh, last.pre.store, last.pre.refreshTokens)
    /\ last.out.err # "StoreError"

\* the old JTI is gone from, and the returned token's JTI recorded in, store and cache
Rotated ==
    /\ last.out.refresh.jti \notin {0, last.refresh.jti}
    /\ last.refresh.jti \notin DOMAIN store.refresh
    /\ last.refresh.jti \notin DOMAIN refreshTokens
    /\ Live(last.out.refresh, store, refreshTokens)
    /\ DOMAIN store.refresh =
         (DOMAIN last.pre.store.refresh \ {last.refresh.jti}) \cup {last.out.refresh.jti}
    /\ DOMAIN refreshTokens =
         (DOMAIN last.pre.refreshTokens \ {last.refresh.jti}) \cup {last.out.refresh.jti}

RenewedExpired ==
    LET a == Strip(last.access)
    IN /\ last.out.err = "nil"
       /\ CorrectlySigned(last.out.access)
       /\ last.out.access.sub = a.sub
       /\ last.out.access.role = a.role
       /\ last.out.access.tenant = a.tenant
       /\ last.out.access.uid = a.uid
       /\ last.out.access.exp = now + cfg.accessTokenValidTime
       /\ last.out.csrf \notin {0, a.csrf}
       /\ last.out.access.csrf = last.out.csrf
       /\ CorrectlySigned(last.out.refresh)
       /\ last.out.refresh.csrf = last.out.csrf
       /\ last.out.refresh.sub = last.refresh.sub
       /\ Rotated

\* C9: RenewToken with a correctly signed but expired access token, the matching
\* CSRF secret and an unexpired, unrevoked refresh token succeeds: new access
\* token with the old subject, role and tenant, a new CSRF secret, a refresh
\* token with a new JTI carrying the new secret; old JTI gone, new JTI
\* recorded in store and cache.
C9_RenewExpiredAccess ==
    (RenewInOrder /\ Expired(Strip(last.access))) => RenewedExpired

\* the same on instances configured with an HMAC algorithm
RenewExpiredAccessHMAC ==
    (cfg.alg \in HMACAlgs /\ RenewInOrder /\ Expired(Strip(last.access))) => RenewedExpired

RenewExpiredAccessHMACReached ==
    cfg.alg \in HMACAlgs /\ RenewInOrder /\ Expired(Strip(last.access)) /\ RenewedExpired

RenewedValid ==
    /\ last.out.err = "nil"
    /\ last.out.access = Strip(last.access)
    /\ last.out.csrf = last.csrf
    /\ rnd = last.pre.rnd + 1
    /\ CorrectlySigned(last.out.refresh)
    /\ last.out.refresh.exp = now + cfg.refreshTokenValidTime
    /\ last.out.refresh.sub = last.refresh.sub
    /\ Rotated
    /\ blockedTokens = last.pre.blockedTokens
    /\ store.blocked = last.pre.store.blocked

\* C10: RenewToken with a still-valid access token, the matching CSRF secret and
\* a live refresh token returns the presented access token and CSRF secret
\* unchanged, mints no access token and only rotates the refresh token: old
\* JTI removed, one new JTI with a fresh refresh-lifetime expiry added.
C10_RenewValidAccess ==
    (RenewInOrder /\ ~Expired(Strip(last.access))) => RenewedValid

\* the same on instances configured with an HMAC algorithm
RenewValidAccessHMAC ==
    (cfg.alg \in HMACAlgs /\ RenewInOrder /\ ~Expired(Strip(last.access))) => RenewedValid

RenewValidAccessHMACReached ==
    cfg.alg \in HMACAlgs /\ RenewInOrder /\ ~Expired(Strip(last.access)) /\ RenewedValid


\* C11: every RenewToken that returns nil, on the still-valid-access path as
\* on the expired-access path, returns the user id of the presented access
\* token and, as expiresAt, the expiry of the access token it returns.
C11_RenewReturnsIdentityAndExpiry ==
    (last.op = "RenewToken" /\ last.out.err = "nil")
        => /\ last.out.userId = Strip(last.access).uid
           /\ last.out.expiresAt = last.out.access.exp

\* a RenewToken call with a correctly signed, expired access token and its
\* CSRF secret
RenewExpiredPresented ==
    /\ last.op = "RenewToken"
    /\ CorrectlySigned(Strip(last.access))
    /\ Expired(Strip(last.access))
    /\ CsrfPresented

\* no token came back and the store and the cache are as they were
NothingIssuedOrChanged ==
    /\ last.out.access = Blank
    /\ last.out.refresh = Blank
    /\ last.writes = 0
    /\ store = last.pre.store
    /\ refreshTokens = last.pre.refreshTokens
    /\ blockedTokens = last.pre.blockedTokens

\* C12: RenewToken with an expired access token, the matching CSRF secret and
\* a correctly signed refresh token whose JTI is absent from the cache returns
\* Unauthorized, no new access or refresh token, and writes nothing.
C12_RevokedRefreshUnauthorized ==
    (RenewExpiredPresented /\ CorrectlySigned(last.refresh)
       /\ last.refresh.jti \notin DOMAIN last.pre.refreshTokens)
        => /\ last.out.err = "Unauthorized"
           /\ NothingIssuedOrChanged

\* the same for refresh tokens that have not themselves expired
RevokedUnexpiredRefreshUnauthorized ==
    (RenewExpiredPresented /\ CorrectlySigned(last.refresh) /\ ~Expired(last.refresh)
       /\ last.refresh.jti \notin DOMAIN last.pre.refreshTokens
       /\ cfg.alg \in HMACAlgs)
        => /\ last.out.err = "Unauthorized"
           /\ NothingIssuedOrChanged

RevokedUnexpiredRefreshReached ==
    /\ RenewExpiredPresented /\ CorrectlySigned(last.refresh) /\ ~Expired(last.refresh)
    /\ last.refresh.jti \notin DOMAIN last.pre.refreshTokens
    /\ cfg.alg \in HMACAlgs
    /\ last.out.err = "Unauthorized"

\* C13: RenewToken with an expired access token, the matching CSRF secret and
\* a correctly signed refresh token whose JTI is live but whose expiry has
\* passed removes that JTI from the store and the cache and returns
\* Unauthorized.
C13_ExpiredRefreshRevoked ==
    (RenewExpiredPresented /\ CorrectlySigned(last.refresh) /\ Expired(last.refresh)
       /\ Live(last.refresh, last.pre.store, last.pre.refreshTokens)
       /\ last.out.err # "StoreError")
        => /\ last.out.err = "Unauthorized"
           /\ last.refresh.jti \notin DOMAIN store.refresh
           /\ last.refresh.jti \notin DOMAIN refreshTokens

\* C14: RenewToken with an expired access token, the matching CSRF secret and
\* a refresh token that is malformed or carries an invalid signature returns
\* Unauthorized, issues no token and changes neither store nor cache.
C14_BadRefreshUnauthorized ==
    (RenewExpiredPresented /\ ~CorrectlySigned(last.refresh))
        => /\ last.out.err = "Unauthorized"
           /\ NothingIssuedOrChanged

\* C15: RenewToken with a non-empty CSRF secret and an access token string
\* that cannot be parsed at all ends normally with Unauthorized.
C15_UnparsableAccessUnauthorized ==
    (last.op = "RenewToken" /\ last.csrf # 0
       /\ Strip(last.access).shape \in {"empty", "segments", "header"})
        => last.out.err = "Unauthorized"

\* every cached refresh JTI has a store record with the same subject
RefreshCacheBacked ==
    \A j \in DOMAIN refreshTokens :
       j \in DOMAIN store.refresh /\ store.refresh[j] = refreshTokens[j]

\* every cached blocked token string is the value of some store record
BlockedCacheBacked ==
    \A i \in 1..Len(blockedTokens) :
       \E k \in DOMAIN store.blocked : store.blocked[k] = blockedTokens[i]

\* C19: on one instance, between calls, every JTI of the cached refresh map
\* has a store record with the same subject and every cached blocked token
\* has a backing store record, after any sequence of GenerateToken, RenewToken
\* and DeleteToken calls, failed ones included.
C19_CacheBackedByStore == RefreshCacheBacked /\ BlockedCacheBacked

\* two RenewToken calls that presented the same refresh token have both
\* come to their end
BothRenewedSame ==
    /\ procs[1].at = "done" /\ procs[2].at = "done"
    /\ procs[1].op = "RenewToken" /\ procs[2].op = "RenewToken"
    /\ procs[1].refresh = procs[2].refresh

\* the call of p handed back a refresh token whose JTI is live
UsableRefresh(p) ==
    /\ procs[p].out.err = "nil"
    /\ Live(procs[p].out.refresh, store, refreshTokens)

\* C16: under any interleaving of concurrent RenewToken calls presenting the
\* same live refresh token, once all have completed at most one live JTI
\* descends from that token and at most one call returned a usable new
\* refresh token.
C16_OneLiveDescendant ==
    BothRenewedSame => ~(UsableRefresh(1) /\ UsableRefresh(2))

\* statements that read, and statements that write, the blocked slice
SliceReads == {"contains", "appendRead"}
SliceWrites == {"appendWrite"}

\* two callers are at statements on blockedTokens and one of them writes it
SliceRace ==
    \E p \in Procs, q \in Procs :
       /\ p # q
       /\ procs[p].at \in SliceWrites
       /\ procs[q].at \in SliceReads \cup SliceWrites

\* C17: in no reachable state do two running operations access the refresh
\* map or the blocked list at the same time with at least one of them writing.
C17_CacheAccessSynchronized == ~MapRace /\ ~SliceRace

\* C18: in every mutation the store write comes before the cache write and a
\* failed store write leaves the cache as it was: every cached JTI and every
\* cached blocked token was accepted by the store before.
C18_StoreBeforeCache ==
    /\ \A j \in DOMAIN refreshTokens : <<j, refreshTokens[j]>> \in durable.refresh
    /\ \A i \in 1..Len(blockedTokens) : blockedTokens[i] \in durable.blocked

\* a RenewToken call is over that removed the old record from the store and
\* then from the map, and whose write of the new record failed: the JTI it
\* had drawn is in neither
C18_Witness ==
    \E p \in Procs :
       /\ procs[p].at = "done" /\ procs[p].op = "RenewToken"
       /\ procs[p].out.err = "StoreError"
       /\ procs[p].jti # 0
       /\ procs[p].jti \notin DOMAIN refreshTokens
       /\ procs[p].jti \notin DOMAIN store.refresh
       /\ procs[p].refresh.jti \notin DOMAIN refreshTokens
       /\ procs[p].refresh.jti \notin DOMAIN store.refresh

\* the token strings of a sequence
Range(q) == {q[i] : i \in 1..Len(q)}

\* the blocked records of a store that are not past their expiry
Unexpired(sb) == {sb[k] : k \in DOMAIN sb \ ExpiredKeys(sb)}

\* C20: a constructor returns an instance only after both mirrors were loaded
\* from the store; when a load fails it returns the error and no instance;
\* on success the cache equals what the store enumerated.
C20_HydratedBeforeUse ==
    last.op = "New" =>
      IF last.out.err = "nil"
      THEN /\ inst = "ready"
           /\ last.calls = 2
           /\ refreshTokens = last.pre.store.refresh
           /\ Range(blockedTokens) = Unexpired(last.pre.store.blocked)
           /\ Len(blockedTokens) = Cardinality(Unexpired(last.pre.store.blocked))
      ELSE inst = "none"

\* a constructor returned an instance over a store holding refresh records,
\* live blocked records and expired blocked records
C20_Witness ==
    /\ last.op = "New" /\ last.out.err = "nil" /\ inst = "ready"
    /\ DOMAIN refreshTokens = StartJtis
    /\ Len(blockedTokens) >= 2
    /\ ExpiredKeys(last.pre.store.blocked) # {}

\* C21: a VerifyToken call makes no repository call and leaves the store,
\* the cached refresh map and the blocked slice as they were, whatever the
\* token and whatever the outcome.
C21_VerifyTokenReadsOnly ==
    last.op = "VerifyToken" =>
      /\ last.calls = 0
      /\ last.writes = 0
      /\ store = last.pre.store
      /\ blockedTokens = last.pre.blockedTokens
      /\ refreshTokens = last.pre.refreshTokens

\* VerifyToken rejected a revoked access token that is otherwise valid, with
\* the blocked record in the store and in the slice
C21_Witness ==
    /\ last.op = "VerifyToken" /\ last.out.err = "Unauthorized"
    /\ CorrectlySigned(last.out.access) /\ ~Expired(last.out.access)
    /\ contains(blockedTokens, last.out.access)
    /\ \E k \in DOMAIN store.blocked : store.blocked[k] = last.out.access

\* DeleteToken was given a refresh token this instance signed, not yet expired,
\* whose JTI the store did not hold, and the store answered every call
DeleteMissingRecord ==
    /\ last.op = "DeleteToken"
    /\ CorrectlySigned(last.refresh) /\ ~Expired(last.refresh)
    /\ last.refresh.jti \notin DOMAIN last.pre.store.refresh
    /\ last.out.err # "StoreError"

\* the store and both package variables are as they were before the call
NothingChanged ==
    /\ last.writes = 0
    /\ store = last.pre.store
    /\ refreshTokens = last.pre.refreshTokens
    /\ blockedTokens = last.pre.blockedTokens

\* C23: DeleteToken with a correctly signed, unexpired refresh token whose
\* JTI has no store record fails with RefreshTokenNotFoundInDatabase and
\* changes neither the store nor the cache.
C23_MissingRecordNotFound ==
    DeleteMissingRecord
        => /\ last.out.err = "RefreshTokenNotFoundInDatabase"
           /\ NothingChanged

\* what the code does in that case: the repository's own error, nothing changed
DeleteMissingRecordAlreadyRefreshed ==
    (DeleteMissingRecord /\ cfg.alg \in HMACAlgs)
        => /\ last.out.err = "TokenAlreadyRefreshed"
           /\ NothingChanged

DeleteMissingRecordReached == DeleteMissingRecord /\ cfg.alg \in HMACAlgs

\* DeleteToken was given a live, unexpired refresh token together with an
\* access token this instance signed whose expiry has passed
DeleteWithExpiredAccess ==
    /\ last.op = "DeleteToken"
    /\ CorrectlySigned(last.refresh) /\ ~Expired(last.refresh)
    /\ Live(last.refresh, last.pre.store, last.pre.refreshTokens)
    /\ CorrectlySigned(last.access) /\ Expired(last.access)
    /\ last.out.err # "StoreError"

\* C24: DeleteToken with a live refresh token and a correctly signed, already
\* expired access token returns nil; the refresh record is gone from store and
\* cache and no blocked record was created.
C24_ExpiredAccessNotBlocked ==
    DeleteWithExpiredAccess
        => /\ last.out.err = "nil"
           /\ last.refresh.jti \notin DOMAIN store.refresh
           /\ last.refresh.jti \notin DOMAIN refreshTokens
           /\ store.blocked = last.pre.store.blocked
           /\ blockedTokens = last.pre.blockedTokens

\* what the code does in that case: the revocation happens, the call reports
\* the access token's expiry as its error
DeleteWithExpiredAccessReportsExpiry ==
    (DeleteWithExpiredAccess /\ cfg.alg \in HMACAlgs)
        => /\ last.out.err = "ExpiredToken"
           /\ last.refresh.jti \notin DOMAIN store.refresh
           /\ last.refresh.jti \notin DOMAIN refreshTokens
           /\ store.blocked = last.pre.store.blocked
           /\ blockedTokens = last.pre.blockedTokens

DeleteWithExpiredAccessReached == DeleteWithExpiredAccess /\ cfg.alg \in HMACAlgs

\* only DeleteToken adds to the blocked set
BlockedOnlyByDeleteToken ==
    last.op \in {"GenerateToken", "VerifyToken", "RenewToken"}
        => /\ store.blocked = last.pre.store.blocked
           /\ blockedTokens = last.pre.blockedTokens

\* what DeleteToken adds is the access token it was given, which verified and
\* had not expired
BlockedOnlyVerifiedUnexpired ==
    (last.op = "DeleteToken" /\ blockedTokens # last.pre.blockedTokens)
        => /\ blockedTokens = Append(last.pre.blockedTokens, last.access)
           /\ \E k \in DOMAIN store.blocked : store.blocked[k] = last.access
           /\ CorrectlySigned(Strip(last.access))
           /\ ~Expired(last.access)
           /\ ~contains(last.pre.blockedTokens, Strip(last.access))

\* every blocked record of before the call is still there, with its token
BlockedRecordsKept ==
    last.op # "none"
        => \A k \in DOMAIN last.pre.store.blocked :
              /\ k \in DOMAIN store.blocked
              /\ store.blocked[k] = last.pre.store.blocked[k]

\* C25: a blocked entry (store record and slice element) is created only by
\* DeleteToken and only for an access token that verified and had not
\* expired; no other call adds to the blocked set and no call modifies a
\* blocked record that exists.
C25_BlockedOnlyByRevocation ==
    /\ BlockedOnlyByDeleteToken
    /\ BlockedOnlyVerifiedUnexpired
    /\ BlockedRecordsKept

\* a DeleteToken call added a blocked entry
BlockedReached ==
    /\ last.op = "DeleteToken"
    /\ Len(blockedTokens) = Len(last.pre.blockedTokens) + 1

\* C26: a RenewToken call that ends with a store error leaves the presented
\* refresh token live when it was live before, so the call can be repeated.
C26_FailedRenewKeepsRefreshLive ==
    (last.op = "RenewToken" /\ last.out.err = "StoreError"
       /\ Live(last.refresh, last.pre.store, last.pre.refreshTokens))
        => Live(last.refresh, store, refreshTokens)

\* a failed renewal leaves the subject of the presented token a live JTI
FailedRenewKeepsSomeJti ==
    (last.op = "RenewToken" /\ last.out.err = "StoreError"
       /\ Live(last.refresh, last.pre.store, last.pre.refreshTokens)
       /\ DOMAIN last.pre.store.refresh = {last.refresh.jti})
        => DOMAIN store.refresh # {}

\* C29: in every pair GenerateToken returns, on an instance built with any
\* lifetimes a constructor accepts, the access token expires strictly before
\* the refresh token.
C29_AccessExpiresFirst ==
    (last.op = "GenerateToken" /\ inst = "ready" /\ last.out.err = "nil"
       /\ last.out.access.shape = "jwt" /\ last.out.refresh.shape = "jwt")
        => last.out.access.exp < last.out.refresh.exp

\* the order of the two expiries is the order of the two configured lifetimes
ExpiryOrderIsLifetimeOrder ==
    (last.op = "GenerateToken" /\ inst = "ready" /\ last.out.err = "nil"
       /\ last.out.access.shape = "jwt" /\ last.out.refresh.shape = "jwt")
        => (last.out.access.exp < last.out.refresh.exp
              <=> cfg.accessTokenValidTime < cfg.refreshTokenValidTime)

ExpiryOrderReached ==
    /\ last.op = "GenerateToken" /\ inst = "ready"
    /\ last.out.refresh.shape = "jwt"
    /\ cfg.accessTokenValidTime < cfg.refreshTokenValidTime

\* the call context of the first instance with the caches as they were
\* before the last call
BeforeCtx == [Ctx(0) EXCEPT !.cr = last.pre.refreshTokens,
                            !.cb = last.pre.blockedTokens]

\* VerifyToken on the first instance answers as it did before the last call
SameVerifyToken ==
    \A a \in AccessInputs :
       \E m \in {Ctx(0)}, m0 \in {BeforeCtx} :
          VerifyToken(m, a).err = VerifyToken(m0, a).err

\* RenewToken on the first instance answers as it did before the last call
SameRenewToken ==
    \A a \in IssuedAccess, f \in IssuedRefresh :
       \E m \in {Ctx(0)}, m0 \in {BeforeCtx} :
          RenewToken(m, a, f, a.csrf).err = RenewToken(m0, a, f, a.csrf).err

\* C30: constructing a second instance over another repository changes the
\* result of no VerifyToken and no RenewToken call on the first instance.
C30_InstancesIsolated ==
    last.op = "NewPeer" => SameVerifyToken /\ SameRenewToken

\* the same for VerifyToken alone, and for RenewToken alone
PeerKeepsVerifyToken == last.op = "NewPeer" => SameVerifyToken
PeerKeepsRenewToken == last.op = "NewPeer" => SameRenewToken

\* DeleteToken was given a refresh token this instance signed whose JTI the
\* store held for another subject, and the store answered the lookup
DeleteOtherSubject ==
    /\ last.op = "DeleteToken"
    /\ CorrectlySigned(last.refresh)
    /\ last.refresh.jti \in DOMAIN last.pre.store.refresh
    /\ last.pre.store.refresh[last.refresh.jti] # last.refresh.sub
    /\ last.out.err # "StoreError"

\* C22: DeleteToken with a correctly signed refresh token whose subject
\* differs from the subject the store records for its JTI returns
\* RefreshTokenNotFoundInDatabase and changes nothing.
C22_SubjectMismatchNotFound ==
    DeleteOtherSubject
        => /\ last.out.err = "RefreshTokenNotFoundInDatabase"
           /\ NothingChanged

\* C22 as amended: the same for a refresh token that passes
\* verifyRefreshToken, which runs before the lookup.
C22_VerifiedSubjectMismatchNotFound ==
    (DeleteOtherSubject /\ verifyRefreshToken(last.refresh).err = "nil")
        => /\ last.out.err = "RefreshTokenNotFoundInDatabase"
           /\ NothingChanged

\* a verified refresh token of u1 was presented while its JTI belonged to u3
\* and the caches held entries; the call ended with the error
C22_Witness ==
    /\ DeleteOtherSubject
    /\ verifyRefreshToken(last.refresh).err = "nil"
    /\ last.out.err = "RefreshTokenNotFoundInDatabase"
    /\ last.calls = 1
    /\ Len(blockedTokens) > 0

\* C27: a call that has entered storeRefreshToken comes to its end: the loop
\* that draws a new JTI while the candidate is a key of refreshTokens stops
\* after a bounded number of draws.
C27_IssuanceTerminates ==
    \A p \in Procs :
       (procs[p].at = "generateJti") ~> (procs[p].at = "done" \/ inst = "crashed")

\* the write of a refresh record by caller p
WritesRecord(p) == procs[p].at = "storeRefreshToken" /\ procs'[p].at = "put"

\* C28: the JTI storeRefreshToken persists is not a JTI the store holds at
\* the moment of the write, whatever the interleaving of the callers: no call
\* overwrites the refresh record of another session.
C28_WriteKeepsRecords ==
    [][\A p \in Procs : WritesRecord(p) => procs[p].jti \notin DOMAIN store.refresh]_vars

\* the middleware has run on a request
Served == last.op = "Authentication"

\* a header of the form "Bearer <token>" with a token that is not empty
WellFormedBearer(h) ==
    /\ Len(h.values) = 1
    /\ Len(h.values[1]) = 3
    /\ h.values[1][1] = "Bearer" /\ h.values[1][2] = " " /\ h.values[1][3] # " "

\* C31: GetAccessTokenFromHeader never crashes; it returns Unauthorized for
\* every header that is missing, not of the form "Bearer <token>" or carries
\* an empty token, and a token only for a well-formed header.
C31_HeaderUnauthorized ==
    Served =>
       /\ last.http.got.err # "panic"
       /\ ~WellFormedBearer(last.http.header) => last.http.got.err = "Unauthorized"
       /\ last.http.got.err = "nil" =>
             /\ WellFormedBearer(last.http.header)
             /\ last.http.got.token = last.http.header.values[1][3]

\* a header value with a space in it is answered as C31 says
SplitHeaderUnauthorized ==
    (Served /\ (Len(last.http.header.values) = 0
                  \/ \E i \in DOMAIN last.http.header.values[1] :
                        last.http.header.values[1][i] = " ")) =>
       /\ last.http.got.err # "panic"
       /\ ~WellFormedBearer(last.http.header) => last.http.got.err = "Unauthorized"
       /\ WellFormedBearer(last.http.header) =>
             /\ last.http.got.err = "nil"
             /\ last.http.got.token = last.http.header.values[1][3]

\* C32: the middleware passes a request on only after VerifyToken accepted the
\* token of its Authorization header, with the verified claims' id and role
\* in the request context; when extraction or verification fails the request
\* is aborted with a 401 response and the next handler does not run.
C32_AuthenticationGate ==
    Served =>
       /\ last.http.next =>
             /\ last.http.verified
             /\ VerifyToken(Ctx(0), TokenOf(last.http.header, last.http.token)).err = "nil"
             /\ last.http.ID = TokenOf(last.http.header, last.http.token).uid
             /\ last.http.Role = TokenOf(last.http.header, last.http.token).role
       /\ ~last.http.verified =>
             /\ last.http.status = 401 /\ last.http.aborted /\ ~last.http.next

\* the next handler runs only for a verified token, with its id and role
NextOnlyWhenVerified ==
    (Served /\ last.http.next) =>
       /\ last.http.verified /\ ~last.http.aborted
       /\ VerifyToken(Ctx(0), TokenOf(last.http.header, last.http.token)).err = "nil"
       /\ last.http.ID = TokenOf(last.http.header, last.http.token).uid
       /\ last.http.Role = TokenOf(last.http.header, last.http.token).role

\* a request whose header has a second part is aborted with 401 when it fails
FailureAborts401 ==
    (Served /\ ~last.http.verified /\ ~last.http.panicked) =>
       last.http.status = 401 /\ last.http.aborted /\ ~last.http.next

\* a request was passed on
PassedOn == Served /\ last.http.next

\* a RenewToken call that returned nil with an access token it made anew
MintedAccess ==
    /\ last.op = "RenewToken" /\ last.out.err = "nil"
    /\ last.out.access.shape = "jwt"
    /\ last.out.access # Strip(last.access)

\* C33: RenewToken mints a new access token only when the presented access
\* token and the presented refresh token belong to the same subject.
C33_RenewSameSubject ==
    MintedAccess => last.access.sub = last.refresh.sub

\* the minted access token is for the subject of the presented access token
MintedForAccessSubject ==
    MintedAccess =>
       /\ last.out.access.sub = last.access.sub
       /\ last.out.refresh.sub = last.refresh.sub

\* DeleteToken has returned nil for an access token that had not expired
BlockedNow ==
    /\ last.op = "DeleteToken" /\ last.out.err = "nil"
    /\ last.access.shape = "jwt" /\ last.access.exp > now

\* C34: DeleteToken and VerifyToken name an access token by the same string:
\* after DeleteToken of an unexpired token given as "Bearer <token>" the
\* blocked set holds the string VerifyToken looks up, and VerifyToken rejects
\* the token with and without the prefix.
C34_BlockedAsLookedUp ==
    (BlockedNow /\ last.access.pre) =>
       /\ contains(blockedTokens, Strip(last.access))
       /\ VerifyToken(Ctx(0), last.access).err = "Unauthorized"
       /\ VerifyToken(Ctx(0), Strip(last.access)).err = "Unauthorized"

\* given without the prefix, the token is blocked under the string looked up
BlockedAsLookedUpBare ==
    (BlockedNow /\ ~last.access.pre) =>
       /\ contains(blockedTokens, last.access)
       /\ VerifyToken(Ctx(0), last.access).err = "Unauthorized"
       /\ VerifyToken(Ctx(0), Bearer(last.access)).err = "Unauthorized"

\* a constructor has returned an instance over the store as it is
Restarted == last.op = "New" /\ last.out.err = "nil" /\ inst = "ready"

\* C35: revocation survives a restart: after successful DeleteToken calls and
\* the construction of a fresh instance over the same store, every revoked
\* access token that has not expired is in the reloaded blocked set and is
\* rejected by VerifyToken, also when revoked tokens share subject and expiry.
C35_RevocationSurvivesRestart ==
    Restarted =>
       \A a \in revoked :
          a.exp > now =>
             /\ contains(blockedTokens, a)
             /\ VerifyToken(Ctx(0), a).err = "Unauthorized"

\* a revoked token that shares subject and expiry with no other revoked token
\* is rejected after the restart
LoneRevocationSurvivesRestart ==
    Restarted =>
       \A a \in revoked :
          (a.exp > now /\ \A b \in revoked : (b.sub = a.sub /\ b.exp = a.exp) => b = a)
             => /\ contains(blockedTokens, a)
                /\ VerifyToken(Ctx(0), a).err = "Unauthorized"

\* an instance was constructed over a store holding a revocation in force
RestartedOverRevocation == Restarted /\ \E a \in revoked : a.exp > now

\* the access token, the refresh token and the CSRF secret a call returned
\* carry one CSRF value
TripleBound(out) == out.access.csrf = out.csrf /\ out.refresh.csrf = out.csrf

\* RenewToken returned nil for tokens and a CSRF secret that carry one value,
\* as a call returns them together
RenewedBound ==
    /\ last.op = "RenewToken" /\ last.out.err = "nil"
    /\ last.access.csrf = last.csrf /\ last.refresh.csrf = last.csrf

\* C36: over GenerateToken and RenewToken calls that return nil, the caller
\* presenting what the last call returned, the CSRF value in the returned
\* access token, the one in the returned refresh token and the returned CSRF
\* secret are equal.
C36_CsrfChain ==
    /\ (last.op = "GenerateToken" /\ last.out.err = "nil") => TripleBound(last.out)
    /\ RenewedBound => TripleBound(last.out)

\* RenewToken hands back one CSRF value when it was given one
RenewKeepsCsrfBound == RenewedBound => TripleBound(last.out)

\* GenerateToken hands back one CSRF value whenever it returns a refresh token
GenerateBoundWithRefresh ==
    (last.op = "GenerateToken" /\ last.out.err = "nil" /\ last.out.refresh.shape = "jwt")
       => TripleBound(last.out)

\* a renewal of an expired access token that followed an earlier renewal
SecondRenewalReached ==
    RenewedBound /\ last.out.access # last.access /\ last.refresh.jti > 2

\* RenewToken was called with a refresh token the instance issued whose JTI
\* was gone from store and cache, as DeleteToken leaves it
RenewAfterRemoval ==
    /\ last.op = "RenewToken"
    /\ last.refresh \in IssuedRefresh
    /\ last.refresh.jti \notin DOMAIN last.pre.store.refresh
    /\ last.refresh.jti \notin DOMAIN last.pre.refreshTokens

\* C37: once DeleteToken has removed a refresh token's JTI, a RenewToken call
\* presenting that refresh token does not succeed, with a valid or an expired
\* access token, and adds no JTI to store or cache.
C37_RemovedRefreshNeverRenews ==
    RenewAfterRemoval =>
       /\ last.out.err # "nil"
       /\ store.refresh = last.pre.store.refresh
       /\ refreshTokens = last.pre.refreshTokens

\* the JTI of a refresh token handed out is never stored again once removed
RemovedJtiStaysRemoved ==
    [][\A f \in IssuedRefresh :
         f.jti \notin DOMAIN store.refresh => f.jti \notin DOMAIN store'.refresh]_vars

\* the removal was DeleteToken's (the only session, no RenewToken has drawn a
\* JTI) and the call came with the session's own access token and CSRF
\* secret, the token still valid or expired
C37_Witness ==
    /\ RenewAfterRemoval
    /\ last.pre.rnd = 3 /\ last.refresh.jti = 2
    /\ last.access \in IssuedAccess /\ last.csrf = last.access.csrf
    /\ last.out.err \in {"TokenAlreadyRefreshed", "Unauthorized"}

C37_WitnessExpiredAccess ==
    C37_Witness /\ Expired(last.access) /\ cfg.alg = "HS256"

\* DeleteToken returned the store's error from persisting the blocked token,
\* its third repository call
BlockingFailed ==
    /\ last.op = "DeleteToken" /\ last.out.err = "StoreError"
    /\ last.calls = 3 /\ last.writes = 1

\* C38: when DeleteToken fails because persisting the blocked access token
\* failed, the same call repeated with the store working ends with the
\* unexpired access token blocked and no longer verifiable.
C38_RetryBlocks ==
    BlockingFailed =>
       \E r \in {DeleteToken(Ctx(0), last.access, last.refresh)} :
          /\ contains(r.m.cb, Strip(last.access))
          /\ VerifyToken(r.m, last.access).err = "Unauthorized"

\* the repeated call finds no refresh record and blocks nothing
RetryFindsNoRecord ==
    BlockingFailed =>
       \E r \in {DeleteToken(Ctx(0), last.access, last.refresh)} :
          /\ r.err = "TokenAlreadyRefreshed"
          /\ r.m.cb = blockedTokens /\ r.m.sb = store.blocked

\* GenerateToken has returned nil
Generated1 == last.op = "GenerateToken" /\ last.out.err = "nil"

\* exactly the record of the returned refresh token was added, for the given
\* subject, to store and cache alike; nothing else changed
OneRecordAdded ==
    /\ last.out.refresh.shape = "jwt"
    /\ last.out.refresh.jti \notin DOMAIN last.pre.store.refresh
    /\ store.refresh = MapPut(last.pre.store.refresh, last.out.refresh.jti, last.prof.sub)
    /\ refreshTokens = MapPut(last.pre.refreshTokens, last.out.refresh.jti, last.prof.sub)
    /\ store.blocked = last.pre.store.blocked
    /\ blockedTokens = last.pre.blockedTokens
    /\ last.out.refresh.csrf = last.out.access.csrf

\* C39: a GenerateToken call that returns nil adds exactly one refresh record:
\* the JTI of the returned refresh token maps to the given subject in store
\* and cache, the other refresh records and the blocked set are unchanged,
\* and the refresh token carries the CSRF secret of the access token.
C39_GenerateAddsOneRecord == Generated1 => OneRecordAdded

\* a GenerateToken call that returns a refresh token has added its record
GenerateWithRefreshAddsOneRecord ==
    (Generated1 /\ last.out.refresh.shape = "jwt") => OneRecordAdded

\* a second session was added next to a live one
SecondRecordAdded ==
    Generated1 /\ OneRecordAdded /\ DOMAIN last.pre.store.refresh # {}

====
